---------------------------- MODULE Spec2Model ----------------------------
(***************************************************************************)
(* The API gateway of sample-app/03-microservices/api-gateway/app.py as a  *)
(* state machine: CORS middleware, route resolution, the endpoint          *)
(* functions, forward_request and the exception handlers.                  *)
(*                                                                         *)
(* Conventions.  A path is the sequence of its segments ("/" is <<>>, a    *)
(* trailing slash is a last empty segment); a segment is a sequence of     *)
(* one-character strings so that int conversion and formatting are         *)
(* computed digit by digit.  A multi-valued mapping (query string, header  *)
(* list) is a sequence of <<key, value>> pairs; a Python dict is such a    *)
(* sequence with unique keys in insertion order.  Optional[bytes] is a     *)
(* record [some, bytes].  Response bodies are the bytes on the wire        *)
(* (JSONResponse renders compact JSON).                                    *)
(***************************************************************************)
EXTENDS Integers, Sequences, FiniteSets, TLC

VARIABLES pc, inbound, outbound, elapsed, response, sent, backend, routes, routed, order, memo,
          tasks, sqlite_sequence, cache, mresp, deleted, now,
          handlers, invoked, published,
          txn

\* the variables of the gateway, those of the monolith and those of the
\* event bus
gwVars == <<pc, inbound, outbound, elapsed, response, sent, backend, routes, routed, order, memo>>
mnVars == <<tasks, sqlite_sequence, cache, mresp, deleted, now>>
evVars == <<handlers, invoked, published>>
vars == <<gwVars, mnVars, evVars, txn>>

(***************************************************************************)
(* Configuration and constants of the source                               *)
(***************************************************************************)
TASK_SERVICE_URL == "http://localhost:8003"
USER_SERVICE_URL == "http://localhost:8004"
PROJECT_SERVICE_URL == "http://localhost:8005"

\* httpx.AsyncClient(timeout=30.0) in forward_request, timeout=5.0 in health
TIMEOUT == 30
HEALTH_TIMEOUT == 5

(***************************************************************************)
(* Bounds of the model                                                     *)
(***************************************************************************)
MaxQuery == 2

Clients == {"c1", "c2"}

(***************************************************************************)
(* Path segments                                                           *)
(***************************************************************************)
SegTasks == <<"t", "a", "s", "k", "s">>
SegStatus == <<"s", "t", "a", "t", "u", "s">>
SegUsers == <<"u", "s", "e", "r", "s">>
SegProjects == <<"p", "r", "o", "j", "e", "c", "t", "s">>
SegHealth == <<"h", "e", "a", "l", "t", "h">>
SegDocs == <<"d", "o", "c", "s">>
SegRedoc == <<"r", "e", "d", "o", "c">>
SegOpenapi == <<"o", "p", "e", "n", "a", "p", "i", ".", "j", "s", "o", "n">>
SegOauth == <<"o", "a", "u", "t", "h", "2", "-", "r", "e", "d", "i", "r", "e", "c", "t">>
SegNope == <<"n", "o", "p", "e">>
SegEmpty == <<>>

Digits == {"0", "1", "2", "3", "4", "5", "6", "7", "8", "9"}

DigitVal(ch) ==
    CASE ch = "0" -> 0 [] ch = "1" -> 1 [] ch = "2" -> 2 [] ch = "3" -> 3
      [] ch = "4" -> 4 [] ch = "5" -> 5 [] ch = "6" -> 6 [] ch = "7" -> 7
      [] ch = "8" -> 8 [] ch = "9" -> 9

DigitChar(d) ==
    CASE d = 0 -> "0" [] d = 1 -> "1" [] d = 2 -> "2" [] d = 3 -> "3"
      [] d = 4 -> "4" [] d = 5 -> "5" [] d = 6 -> "6" [] d = 7 -> "7"
      [] d = 8 -> "8" [] d = 9 -> "9"

\* The path parameter "task_id: int": the segment converts when it is a
\* non-empty run of decimal digits (the segments of the model carry no sign,
\* blank or underscore, which int() would also accept).
IsIntString(seg) == Len(seg) > 0 /\ \A i \in 1..Len(seg) : seg[i] \in Digits

RECURSIVE StrToInt(_)
StrToInt(seg) ==
    IF Len(seg) = 0 THEN 0
    ELSE 10 * StrToInt(SubSeq(seg, 1, Len(seg) - 1)) + DigitVal(seg[Len(seg)])

\* f"{task_id}" of a non-negative int
RECURSIVE IntToStr(_)
IntToStr(n) ==
    IF n < 10 THEN <<DigitChar(n)>>
    ELSE IntToStr(n \div 10) \o <<DigitChar(n % 10)>>

(***************************************************************************)
(* Optional[bytes]                                                         *)
(***************************************************************************)
None == [some |-> FALSE, bytes |-> ""]
Some(b) == [some |-> TRUE, bytes |-> b]

(***************************************************************************)
(* Multi-valued mappings and dict()                                        *)
(***************************************************************************)
Keys(m) == {m[i][1] : i \in 1..Len(m)}

RECURSIVE SelectPairs(_, _)
\* the pairs at the positions of `keep`, in order
SelectPairs(m, keep) ==
    IF Len(m) = 0 THEN <<>>
    ELSE LET front == SelectPairs(SubSeq(m, 1, Len(m) - 1), keep)
         IN IF Len(m) \in keep THEN Append(front, m[Len(m)]) ELSE front

FirstIndex(m, k) == CHOOSE i \in 1..Len(m) : m[i][1] = k /\ \A j \in 1..(i - 1) : m[j][1] # k
LastIndex(m, k) == CHOOSE i \in 1..Len(m) : m[i][1] = k /\ \A j \in (i + 1)..Len(m) : m[j][1] # k

\* dict(request.query_params): starlette's ImmutableMultiDict is a Mapping
\* over its _dict, built as {k: v for k, v in items}: one entry per key, at
\* the position of the key's first occurrence, holding its last value.
QueryDict(q) ==
    [i \in 1..Len(SelectPairs(q, {FirstIndex(q, k) : k \in Keys(q)})) |->
        LET k == SelectPairs(q, {FirstIndex(q, kk) : kk \in Keys(q)})[i][1]
        IN <<k, q[LastIndex(q, k)][2]>>]

\* dict(request.headers): starlette's Headers.keys() lists every raw key and
\* __getitem__ returns the first value of a key: one entry per name, holding
\* its first value.
HeaderDict(h) == SelectPairs(h, {FirstIndex(h, k) : k \in Keys(h)})

\* d.pop(key, None)
Pop(d, key) == SelectPairs(d, {i \in 1..Len(d) : d[i][1] # key})

\* Headers.get(name)
HasHeader(h, name) == name \in Keys(h)
GetHeader(h, name) == h[FirstIndex(h, name)][2]


(***************************************************************************)
(* Inbound requests                                                        *)
(***************************************************************************)
Methods == {"GET", "POST", "PUT", "PATCH", "DELETE", "HEAD", "OPTIONS"}

Paths ==
    { <<>>,                                   \* /
      <<SegHealth>>,                          \* /health
      <<SegTasks>>,                           \* /tasks
      <<SegTasks, <<"4", "2">>>>,             \* /tasks/42
      <<SegTasks, <<"0", "0", "7">>>>,        \* /tasks/007
      <<SegTasks, <<"a", "b", "c">>>>,        \* /tasks/abc
      <<SegTasks, <<"4", "2">>, SegStatus>>,  \* /tasks/42/status
      <<SegUsers>>,                           \* /users
      <<SegProjects>>,                        \* /projects
      <<SegNope>>,                            \* /nope
      <<SegTasks, <<"4", "2">>, SegNope>>,    \* /tasks/42/nope
      <<SegTasks, SegEmpty>>,                 \* /tasks/
      <<SegDocs>> }                           \* /docs

QueryPairs == {<<"k", "1">>, <<"k", "2">>, <<"j", "1">>}

Queries == UNION {[1..n -> QueryPairs] : n \in 0..MaxQuery}

\* header lists as the ASGI server hands them over: names in lower case, one
\* pair per header line, repeated lines kept
HeaderLists ==
    { <<>>,
      << <<"host", "localhost:8006">> >>,
      << <<"host", "localhost:8006">>, <<"accept", "application/json">> >>,
      << <<"accept", "application/json">>, <<"host", "localhost:8006">>,
         <<"accept", "text/plain">> >>,
      << <<"host", "localhost:8006">>, <<"origin", "http://ui.example">> >>,
      << <<"host", "localhost:8006">>, <<"origin", "http://ui.example">>,
         <<"access-control-request-method", "PATCH">> >> }

Bodies == {"", "{\"title\":\"x\"}"}

Requests ==
    [method : Methods, path : Paths, query : Queries, headers : HeaderLists,
     body : Bodies]

(***************************************************************************)
(* Responses                                                               *)
(***************************************************************************)
JsonHeaders == << <<"content-type", "application/json">> >>
TextHeaders == << <<"content-type", "text/plain; charset=utf-8">> >>

Resp(status, body, headers) == [status |-> status, body |-> body, headers |-> headers]

\* json.dumps({"detail": msg}, separators=(",", ":"))
DetailJson(msg) == "{\"detail\":\"" \o msg \o "\"}"

JSONResponse(status, content) == Resp(status, content, JsonHeaders)

\* Variant: the 404 handler is not registered and the framework's default
\* body goes out.
not_found_handler_Default == JSONResponse(404, DetailJson("Not Found"))

\* @app.exception_handler(404)
not_found_handler == JSONResponse(404, DetailJson("Resource not found"))

\* Variant: no handler is registered for 500 and ServerErrorMiddleware
\* answers with its own plain text.
internal_error_handler_Default == Resp(500, "Internal Server Error", TextHeaders)

\* @app.exception_handler(500): starlette hands the handler registered for
\* 500 to ServerErrorMiddleware, which runs it for uncaught exceptions only
internal_error_handler == JSONResponse(500, DetailJson("Internal server error"))

\* A raised HTTPException(status, detail): the handler registered for its
\* status code if there is one among the status handlers (only 404 is),
\* otherwise the framework's default, a JSON body {"detail": detail}.
RaiseHTTPException(status, detail) ==
    IF status = 404 THEN not_found_handler
    ELSE JSONResponse(status, DetailJson(detail))

(***************************************************************************)
(* The routing table: FastAPI() registers its documentation routes first   *)
(* (openapi_url, docs_url, redoc_url keep their defaults), then the        *)
(* decorators register the application's routes in source order.           *)
(***************************************************************************)
Lit(seg) == [kind |-> "lit", text |-> seg]
Param == [kind |-> "param", text |-> SegEmpty]

Routes ==
    << [pattern |-> <<Lit(SegOpenapi)>>, methods |-> {"GET", "HEAD"}, endpoint |-> "openapi"],
       [pattern |-> <<Lit(SegDocs)>>, methods |-> {"GET", "HEAD"}, endpoint |-> "swagger_ui_html"],
       [pattern |-> <<Lit(SegDocs), Lit(SegOauth)>>, methods |-> {"GET", "HEAD"},
        endpoint |-> "swagger_ui_redirect"],
       [pattern |-> <<Lit(SegRedoc)>>, methods |-> {"GET", "HEAD"}, endpoint |-> "redoc_html"],
       [pattern |-> <<>>, methods |-> {"GET"}, endpoint |-> "root"],
       [pattern |-> <<Lit(SegHealth)>>, methods |-> {"GET"}, endpoint |-> "health"],
       [pattern |-> <<Lit(SegTasks)>>, methods |-> {"GET", "POST"}, endpoint |-> "tasks_route"],
       [pattern |-> <<Lit(SegTasks), Param>>, methods |-> {"GET", "PUT", "PATCH", "DELETE"},
        endpoint |-> "task_by_id_route"],
       [pattern |-> <<Lit(SegTasks), Param, Lit(SegStatus)>>, methods |-> {"PATCH"},
        endpoint |-> "task_status_route"],
       [pattern |-> <<Lit(SegUsers)>>, methods |-> {"GET", "POST"}, endpoint |-> "users_route"],
       [pattern |-> <<Lit(SegProjects)>>, methods |-> {"GET", "POST"},
        endpoint |-> "projects_route"] >>

\* Variant: a placeholder in last position takes the rest of the path, as a
\* {id:path} convertor would.
PathMatches_Greedy(pattern, path) ==
    /\ IF pattern # <<>> /\ pattern[Len(pattern)].kind = "param"
       THEN Len(path) >= Len(pattern)
       ELSE Len(path) = Len(pattern)
    /\ \A i \in 1..Len(pattern) :
          IF pattern[i].kind = "lit" THEN path[i] = pattern[i].text
          ELSE path[i] # SegEmpty

\* the route's compiled path regex: a literal matches itself, a placeholder
\* matches one non-empty segment ([^/]+)
PathMatches(pattern, path) ==
    /\ Len(pattern) = Len(path)
    /\ \A i \in 1..Len(pattern) :
          IF pattern[i].kind = "lit" THEN path[i] = pattern[i].text
          ELSE path[i] # SegEmpty

FullMatches(method, path) ==
    {i \in 1..Len(routes) : PathMatches(routes[i].pattern, path) /\ method \in routes[i].methods}

PartialMatches(path) == {i \in 1..Len(routes) : PathMatches(routes[i].pattern, path)}

First(S) == CHOOSE i \in S : \A j \in S : i <= j

\* redirect_slashes: the path with its trailing slash removed or added
ToggleSlash(path) ==
    IF path[Len(path)] = SegEmpty THEN SubSeq(path, 1, Len(path) - 1)
    ELSE Append(path, SegEmpty)

\* Variant: a route whose path matches but whose method does not is skipped
\* like a route that does not match at all.
Resolve_NoPartial(method, path) ==
    IF FullMatches(method, path) # {}
      THEN [kind |-> "route", route |-> First(FullMatches(method, path))]
    ELSE [kind |-> "not_found", route |-> 0]

\* Router: the first route matching path and method; failing that the first
\* route matching the path alone (it answers 405); failing that a redirect
\* when the path with the slash toggled matches a route; failing that 404.
Resolve(method, path) ==
    IF FullMatches(method, path) # {}
      THEN [kind |-> "route", route |-> First(FullMatches(method, path))]
    ELSE IF PartialMatches(path) # {}
      THEN [kind |-> "method_not_allowed", route |-> First(PartialMatches(path))]
    ELSE IF path # <<>> /\ PartialMatches(ToggleSlash(path)) # {}
      THEN [kind |-> "redirect", route |-> 0]
    ELSE [kind |-> "not_found", route |-> 0]

(***************************************************************************)
(* CORSMiddleware(allow_origins=["*"], allow_credentials=True,             *)
(* allow_methods=["*"], allow_headers=["*"])                               *)
(***************************************************************************)
CorsAllowMethods == {"DELETE", "GET", "HEAD", "OPTIONS", "PATCH", "POST", "PUT"}

IsPreflight(req) ==
    /\ HasHeader(req.headers, "origin")
    /\ req.method = "OPTIONS"
    /\ HasHeader(req.headers, "access-control-request-method")

\* preflight_response: answered by the middleware, the router is not reached
PreflightResponse(req) ==
    LET hdrs == TextHeaders \o
                << <<"access-control-allow-origin", GetHeader(req.headers, "origin")>>,
                   <<"access-control-allow-credentials", "true">> >>
    IN IF GetHeader(req.headers, "access-control-request-method") \in CorsAllowMethods
       THEN Resp(200, "OK", hdrs)
       ELSE Resp(400, "Disallowed CORS method", hdrs)

\* simple_response: a request that names an Origin gets the CORS headers
\* added to whatever response the application produces
Cors(req, resp) ==
    IF HasHeader(req.headers, "origin")
    THEN [resp EXCEPT !.headers = @ \o << <<"access-control-allow-origin", "*">>,
                                          <<"access-control-allow-credentials", "true">> >>]
    ELSE resp

(***************************************************************************)
(* Outbound calls                                                          *)
(***************************************************************************)
NoRequest == [method |-> "", path |-> <<>>, query |-> <<>>, headers |-> <<>>, body |-> ""]
NoResponse == Resp(0, "", <<>>)
NoReply == [status |-> 0, body |-> "", headers |-> <<>>]
NoExc == [class |-> "", message |-> ""]
NoCall ==
    [kind |-> "none", method |-> "", url |-> [base |-> "", path |-> <<>>], headers |-> <<>>,
     content |-> None, params |-> <<>>, timeout |-> 0, service_url |-> "", state |-> "none",
     reply |-> NoReply,
     exc |-> NoExc]

\* forward_request up to the await of client.request: the arguments of the
\* outbound call
forward_request(service_url, path, method, request, body) ==
    [kind |-> "forward",
     method |-> method,
     url |-> [base |-> service_url, path |-> path],
     headers |-> Pop(HeaderDict(request.headers), "host"),
     content |-> body,
     params |-> QueryDict(request.query),
     timeout |-> TIMEOUT,
     service_url |-> service_url,
     state |-> "open",
     reply |-> NoReply,
     exc |-> NoExc]

\* health up to the await of client.get
health_probe ==
    [kind |-> "probe",
     method |-> "GET",
     url |-> [base |-> TASK_SERVICE_URL, path |-> <<SegHealth>>],
     headers |-> <<>>,
     content |-> None,
     params |-> <<>>,
     timeout |-> HEALTH_TIMEOUT,
     service_url |-> TASK_SERVICE_URL,
     state |-> "open",
     reply |-> NoReply,
     exc |-> NoExc]

\* Variant: a failed call is made a second time.
MaxAttempts_Retry(call) == 2

\* forward_request makes one client.request call; there is no loop around it
\* and the client is built without a retrying transport
MaxAttempts(call) == 1

(***************************************************************************)
(* Endpoints.  An endpoint either answers at once or awaits an outbound    *)
(* call.                                                                   *)
(***************************************************************************)
Answer(resp) == [kind |-> "respond", resp |-> resp, call |-> NoCall]
Await(call) == [kind |-> "call", resp |-> NoResponse, call |-> call]

root ==
    JSONResponse(200,
        "{\"service\":\"API Gateway\",\"version\":\"1.0.0\",\"architecture\":\"microservices\","
        \o "\"services\":{\"tasks\":\"" \o TASK_SERVICE_URL \o "\",\"users\":\""
        \o USER_SERVICE_URL \o "\",\"projects\":\"" \o PROJECT_SERVICE_URL \o "\"}}")

tasks_route(request) ==
    LET body == IF request.method = "POST" THEN Some(request.body) ELSE None
    IN Await(forward_request(TASK_SERVICE_URL, <<SegTasks>>, request.method, request, body))

\* Variant: the body is read and forwarded whatever the method.
task_by_id_route_AlwaysBody(request, task_id) ==
    Await(forward_request(TASK_SERVICE_URL, <<SegTasks, IntToStr(task_id)>>,
                          request.method, request, Some(request.body)))

task_by_id_route(request, task_id) ==
    LET body == IF request.method \in {"PUT", "PATCH"} THEN Some(request.body) ELSE None
    IN Await(forward_request(TASK_SERVICE_URL, <<SegTasks, IntToStr(task_id)>>,
                             request.method, request, body))

task_status_route(request, task_id) ==
    LET body == Some(request.body)
    IN Await(forward_request(TASK_SERVICE_URL, <<SegTasks, IntToStr(task_id), SegStatus>>,
                             request.method, request, body))

\* Variant: the placeholder route forwards to the configured user service.
users_route_Forwarding(request) ==
    Await(forward_request(USER_SERVICE_URL, <<SegUsers>>, request.method, request, None))

users_route(request) ==
    Answer(JSONResponse(501, DetailJson("User service not implemented yet")))

projects_route(request) ==
    Answer(JSONResponse(501, DetailJson("Project service not implemented yet")))

\* Variant: a path parameter that does not convert is answered as a missing
\* resource.
ValidationError_NotFound == not_found_handler

\* the framework's answer to a path parameter that does not convert to int
\* (the list of validation errors is abbreviated)
ValidationError ==
    JSONResponse(422, "{\"detail\":[{\"type\":\"int_parsing\",\"loc\":[\"path\",\"task_id\"]}]}")

\* the documentation pages FastAPI serves (contents abbreviated); a HEAD
\* response goes out without its body
DocsResponse(request, page) ==
    Resp(200, IF request.method = "HEAD" THEN "" ELSE page,
         << <<"content-type", "text/html; charset=utf-8">> >>)

\* calling the endpoint of a fully matched route: path parameters are
\* converted and validated before the endpoint function runs
CallEndpoint(endpoint, request) ==
    CASE endpoint = "root" -> Answer(root)
      [] endpoint = "health" -> Await(health_probe)
      [] endpoint = "tasks_route" -> tasks_route(request)
      [] endpoint = "task_by_id_route" ->
            IF IsIntString(request.path[2])
            THEN task_by_id_route(request, StrToInt(request.path[2]))
            ELSE Answer(ValidationError)
      [] endpoint = "task_status_route" ->
            IF IsIntString(request.path[2])
            THEN task_status_route(request, StrToInt(request.path[2]))
            ELSE Answer(ValidationError)
      [] endpoint = "users_route" -> users_route(request)
      [] endpoint = "projects_route" -> projects_route(request)
      [] endpoint = "openapi" ->
            Answer(Resp(200, IF request.method = "HEAD" THEN "" ELSE "{\"openapi\":\"3.1.0\"}",
                        JsonHeaders))
      [] endpoint = "swagger_ui_html" -> Answer(DocsResponse(request, "<html>Swagger UI</html>"))
      [] endpoint = "swagger_ui_redirect" ->
            Answer(DocsResponse(request, "<html>oauth2 redirect</html>"))
      [] endpoint = "redoc_html" -> Answer(DocsResponse(request, "<html>ReDoc</html>"))

\* The application as the middleware stack sees a request: CORS preflight,
\* then the router, then the endpoint.
Dispatch(request) ==
    IF IsPreflight(request) THEN Answer(PreflightResponse(request))
    ELSE LET r == Resolve(request.method, request.path)
         IN CASE r.kind = "not_found" -> Answer(RaiseHTTPException(404, "Not Found"))
              [] r.kind = "redirect" ->
                    \* RedirectResponse to the same URL with the slash toggled
                    Answer(Resp(307, "", << <<"location", "toggled-slash">> >>))
              [] r.kind = "method_not_allowed" ->
                    Answer(RaiseHTTPException(405, "Method Not Allowed"))
              [] r.kind = "route" -> CallEndpoint(routes[r.route].endpoint, request)

(***************************************************************************)
(* What the awaited call brings back                                       *)
(***************************************************************************)
BackendStatuses == {200, 204, 404, 422, 500, 503, 504}
BackendBodies == {"", "[{\"id\":1,\"title\":\"x\"}]", "{\"detail\":\"Task not found\"}"}
BackendReplies == [status : BackendStatuses, body : BackendBodies, headers : {JsonHeaders}]

\* httpx exceptions: ConnectError is a TransportError with no subclass; the
\* TimeoutException family holds Connect-, Read-, Write- and PoolTimeout
TimeoutExceptions == {"ConnectTimeout", "ReadTimeout", "WriteTimeout", "PoolTimeout"}
OtherFaults ==
    { [class |-> "ReadError", message |-> "connection reset"],
      [class |-> "RemoteProtocolError", message |-> "Server disconnected without sending a response."] }
Exc(class, message) == [class |-> class, message |-> message]

\* what can go wrong in forward_request and its callers before the try block
InternalFaults ==
    { [phase |-> "body", exc |-> Exc("ClientDisconnect", "")],
      [phase |-> "headers", exc |-> Exc("MemoryError", "")],
      [phase |-> "client", exc |-> Exc("OSError", "Too many open files")] }

HealthReport(status) ==
    JSONResponse(200,
        "{\"gateway\":\"healthy\",\"services\":{\"task-service\":\"" \o status \o "\"}}")

\* Variant: a backend error status is raised as an HTTPException instead of
\* being passed through.
ForwardReply_RaiseForStatus(reply) ==
    IF reply.status >= 400 THEN RaiseHTTPException(reply.status, "Backend error")
    ELSE Resp(reply.status, reply.body, reply.headers)

\* forward_request after the await, normal return: Response(content=...,
\* status_code=..., headers=dict(response.headers), media_type=...)
ForwardReply(reply) == Resp(reply.status, reply.body, reply.headers)

\* Variant: the catch-all clause comes first.
ForwardFailure_CatchAll(service_url, exc) ==
    RaiseHTTPException(500, "Gateway error: " \o exc.message)

\* Variant: a refused connection is reported as 502 Bad Gateway.
ForwardFailure_BadGateway(service_url, exc) ==
    IF exc.class = "ConnectError"
      THEN RaiseHTTPException(502, "Bad gateway: " \o service_url)
    ELSE IF exc.class \in TimeoutExceptions
      THEN RaiseHTTPException(504, "Service timeout: " \o service_url)
    ELSE RaiseHTTPException(500, "Gateway error: " \o exc.message)

\* Variant: a timeout while connecting is caught together with the refused
\* connection.
ForwardFailure_ConnectPhase(service_url, exc) ==
    IF exc.class \in {"ConnectError", "ConnectTimeout"}
      THEN RaiseHTTPException(503, "Service unavailable: " \o service_url)
    ELSE IF exc.class \in TimeoutExceptions
      THEN RaiseHTTPException(504, "Service timeout: " \o service_url)
    ELSE RaiseHTTPException(500, "Gateway error: " \o exc.message)

\* forward_request after the await, the except clauses in source order
ForwardFailure(service_url, exc) ==
    IF exc.class = "ConnectError"
      THEN RaiseHTTPException(503, "Service unavailable: " \o service_url)
    ELSE IF exc.class \in TimeoutExceptions
      THEN RaiseHTTPException(504, "Service timeout: " \o service_url)
    ELSE RaiseHTTPException(500, "Gateway error: " \o exc.message)

\* Variant: every status below 400 counts as healthy.
HealthReply_OkBelow400(reply) ==
    HealthReport(IF reply.status < 400 THEN "healthy" ELSE "unhealthy")

\* Variant: the probe is awaited outside a try block and its failure becomes
\* the failure of the health call.
HealthFailure_Raise(exc) == RaiseHTTPException(503, "Service unavailable: " \o TASK_SERVICE_URL)

\* health after the await
HealthReply(reply) == HealthReport(IF reply.status = 200 THEN "healthy" ELSE "unhealthy")
HealthFailure(exc) == HealthReport("unreachable")

OnReply(call, reply) ==
    IF call.kind = "forward" THEN ForwardReply(reply) ELSE HealthReply(reply)

OnFailure(call, exc) ==
    IF call.kind = "forward" THEN ForwardFailure(call.service_url, exc) ELSE HealthFailure(exc)

\* Variant: a late reply replaces the response.
AfterLateReply_Overwrite(resp, reply) == Resp(reply.status, reply.body, reply.headers)

\* A reply that reaches the gateway after the call was given up: the client
\* was closed by the "async with" block, the reply is dropped and the
\* response of the request stays as it is.
AfterLateReply(resp, reply) == resp

(***************************************************************************)
(* The monolith of sample-app/01-monolith: the endpoints of app.py over    *)
(* the tasks table of database.py, the in-memory list cache and the rate   *)
(* limiter.  The endpoint functions are "async def" without an await, so   *)
(* each request runs from its arrival to its response in one step.         *)
(* tasks is the table (a function from the stored ids to their rows),      *)
(* sqlite_sequence the largest id the table has ever handed out (kept by   *)
(* SQLite for an AUTOINCREMENT column), cache the dict of cached lists     *)
(* with the time each entry was stored at, now the clock                   *)
(* (datetime.utcnow(), in seconds), mresp the last response, deleted the   *)
(* ids whose DELETE was answered 204.                                      *)
(***************************************************************************)
MaxTasks == 2

CACHE_TTL_SECONDS == 60

TaskStatus == {"todo", "done"}
TaskPriority == {"low", "medium", "high"}
UserIds == {1, 2}
ProjectIds == {1}

\* the instants the clock is observed at, and those around them
Instants == {0, 60}
FineInstants == Instants \cup {1, 61}

\* a title is a sequence of tokens: text, blanks and HTML tags
TagTokens == {"<b>", "</b>"}
Titles == { <<"x">>, <<"<b>", " ", "x", "</b>">> }

RECURSIVE Strip(_)
Strip(text) ==
    IF text = <<>> THEN text
    ELSE IF Head(text) = " " THEN Strip(Tail(text))
    ELSE IF text[Len(text)] = " " THEN Strip(SubSeq(text, 1, Len(text) - 1))
    ELSE text

\* Variant: the input is stored as it was submitted.
sanitize_string_Raw(text) == text

\* bleach.clean(text, tags=[], strip=True).strip(): the tags are removed,
\* then the blanks at both ends
sanitize_string(text) ==
    IF text = <<>> THEN text
    ELSE Strip(SelectSeq(text, LAMBDA tok : tok \notin TagTokens))

\* sanitize_tags: every tag sanitized, the empty ones dropped
sanitize_tags(tags) ==
    SelectSeq([k \in 1..Len(tags) |-> sanitize_string(tags[k])], LAMBDA tag : tag # <<>>)

Descriptions == { <<"d">> }
DueDates == {120}
TagLists == { << <<"t">>, <<"<b>", "</b>">> >> }

\* the validated request bodies
TaskCreate ==
    [title : Titles, description : Descriptions, status : TaskStatus, priority : {"high"},
     user_id : UserIds, project_id : ProjectIds, due_date : DueDates, tags : TagLists]
TaskUpdate ==
    [title : Titles, description : Descriptions, status : TaskStatus, priority : {"high"},
     user_id : UserIds, project_id : ProjectIds, due_date : DueDates, tags : TagLists]
TaskStatusUpdate == [status : TaskStatus]

\* the bodies that name the first user, and the plain ones of any user
OfFirstUser(bodies) == {data \in bodies : data.user_id = 1}
Plain(bodies) == {data \in bodies : data.title = <<"x">>}

\* the ids a request names, one more than can ever be stored included
TaskIds == 1..(MaxTasks + 1)

\* the optional user_id filter of GET /tasks; 0 stands for None (the query
\* parameter is declared gt=0)
Filters == {0} \cup UserIds

Endpoints ==
    {"create_task", "get_tasks", "get_task", "update_task", "update_task_status", "delete_task"}

NoTask ==
    [id |-> 0, title |-> <<>>, description |-> <<>>, status |-> "", priority |-> "",
     user_id |-> 0, project_id |-> 0, created_at |-> -1, updated_at |-> -1,
     due_date |-> -1, tags |-> <<>>]
NoEntry == [time |-> -1, data |-> <<>>]

\* Task(...): the dataclass of shared/domain/task.py; created_at and
\* updated_at default to datetime.utcnow()
Task(id, title, description, status, priority, user_id, project_id, created_at, due_date, tags) ==
    [id |-> id, title |-> title, description |-> description, status |-> status,
     priority |-> priority, user_id |-> user_id, project_id |-> project_id,
     created_at |-> created_at, updated_at |-> now, due_date |-> due_date, tags |-> tags]
NoMonoResponse == [op |-> "", arg |-> 0, status |-> 0, task |-> NoTask, list |-> <<>>]

MonoResponse(op, arg, status, task, list) ==
    [op |-> op, arg |-> arg, status |-> status, task |-> task, list |-> list]

cache_key(user_id) == IF user_id # 0 THEN "tasks_" \o ToString(user_id) ELSE "tasks_all"

CacheKeys == {cache_key(u) : u \in Filters}

MaxOf(S) == IF S = {} THEN 0 ELSE CHOOSE m \in S : \A n \in S : n <= m

\* the ids of S in ascending order
RECURSIVE Ascending(_)
Ascending(S) ==
    IF S = {} THEN <<>>
    ELSE LET m == MaxOf(S) IN Append(Ascending(S \ {m}), m)

(***************************************************************************)
(* Database                                                                *)
(***************************************************************************)
\* Variant: the id column is a plain INTEGER PRIMARY KEY, which hands out
\* the largest stored rowid plus one.
NewId_MaxRowid == MaxOf(DOMAIN tasks) + 1

\* id INTEGER PRIMARY KEY AUTOINCREMENT: one more than the largest id the
\* table has ever held
NewId == MaxOf(DOMAIN tasks \cup {sqlite_sequence}) + 1

\* Database.get_task: the row or None
db_get_task(task_id) == IF task_id \in DOMAIN tasks THEN tasks[task_id] ELSE NoTask

\* Database.get_tasks: SELECT * FROM tasks [WHERE user_id = ?]
db_get_tasks(user_id) ==
    LET ids == {i \in DOMAIN tasks : user_id = 0 \/ tasks[i].user_id = user_id}
        seq == Ascending(ids)
    IN [k \in 1..Len(seq) |-> tasks[seq[k]]]

\* Database.create_task: INSERT and cursor.lastrowid
db_create_task(task) ==
    LET id == NewId
        row == [task EXCEPT !.id = id]
    IN [tasks |-> [i \in DOMAIN tasks \cup {id} |-> IF i = id THEN row ELSE tasks[i]],
        sqlite_sequence |-> id,
        task |-> row]

\* Database.update_task: UPDATE tasks SET title = ?, ..., updated_at = ?,
\* due_date = ?, tags = ? WHERE id = ? (every column but id and created_at)
db_update_task(task_id, task) ==
    LET row == [task EXCEPT !.id = task_id, !.updated_at = now]
    IN [tasks |-> [i \in DOMAIN tasks |->
                      IF i = task_id THEN [row EXCEPT !.created_at = tasks[i].created_at]
                      ELSE tasks[i]],
        rowcount |-> IF task_id \in DOMAIN tasks THEN 1 ELSE 0,
        task |-> row]

\* Variant: the status update rewrites the whole row as a new Task, with
\* the defaults of the dataclass for created_at and priority.
db_update_task_status_Rewrite(task_id, status) ==
    [tasks |-> [i \in DOMAIN tasks |->
                   IF i = task_id
                   THEN [tasks[i] EXCEPT !.status = status, !.updated_at = now,
                                         !.created_at = now, !.priority = "medium"]
                   ELSE tasks[i]],
     rowcount |-> IF task_id \in DOMAIN tasks THEN 1 ELSE 0]

\* Database.update_task_status: UPDATE tasks SET status = ?, updated_at = ?
\* WHERE id = ?
db_update_task_status(task_id, status) ==
    [tasks |-> [i \in DOMAIN tasks |->
                   IF i = task_id THEN [tasks[i] EXCEPT !.status = status, !.updated_at = now]
                   ELSE tasks[i]],
     rowcount |-> IF task_id \in DOMAIN tasks THEN 1 ELSE 0]

\* Database.delete_task: DELETE FROM tasks WHERE id = ?
db_delete_task(task_id) ==
    [tasks |-> [i \in DOMAIN tasks \ {task_id} |-> tasks[i]],
     rowcount |-> IF task_id \in DOMAIN tasks THEN 1 ELSE 0]

(***************************************************************************)
(* Cache                                                                   *)
(***************************************************************************)
\* Variant: a list is served up to and including the TTL.
get_cached_tasks_Inclusive(user_id) ==
    LET entry == cache[cache_key(user_id)]
        age == now - entry.time
    IN IF entry # NoEntry /\ age <= CACHE_TTL_SECONDS
       THEN [hit |-> TRUE, data |-> entry.data]
       ELSE [hit |-> FALSE, data |-> <<>>]

\* get_cached_tasks: the cached list when there is one younger than the TTL
get_cached_tasks(user_id) ==
    LET entry == cache[cache_key(user_id)]
        age == now - entry.time
    IN IF entry # NoEntry /\ age < CACHE_TTL_SECONDS
       THEN [hit |-> TRUE, data |-> entry.data]
       ELSE [hit |-> FALSE, data |-> <<>>]

\* set_cached_tasks: cache[cache_key] = (datetime.utcnow(), tasks)
set_cached_tasks(list, user_id) ==
    [cache EXCEPT ![cache_key(user_id)] = [time |-> now, data |-> list]]

\* Variant: a write leaves the cached lists in place until they expire.
invalidate_cache_Keep == cache

\* invalidate_cache: cache.clear()
invalidate_cache == [k \in CacheKeys |-> NoEntry]

(***************************************************************************)
(* The event-driven application of sample-app/04-event-driven: an in-memory *)
(* event bus, the endpoints that write the tasks table and then publish.   *)
(* handlers is EventBus._handlers (for every event type the handlers in    *)
(* the order they were subscribed), invoked the handler calls of the last  *)
(* request in the order they were made, published the events the last      *)
(* request published, each with the table as it was committed when publish *)
(* was called.  The application keeps its own tasks table, of the schema   *)
(* of the monolith's; the table and the last response are held in tasks,   *)
(* sqlite_sequence and mresp.                                              *)
(***************************************************************************)
MaxHandlers == 2

EventTypes == {"task.created", "task.updated", "task.deleted"}

\* event_bus.subscribe(...) at import
Subscriptions ==
    [event_type \in EventTypes |->
        CASE event_type = "task.created" -> <<"on_task_created">>
          [] event_type = "task.updated" -> <<"on_task_updated">>
          [] event_type = "task.deleted" -> <<"on_task_deleted">>]

\* Variant: publish without the try around the handler call; the first
\* handler that raises ends the loop and the exception reaches the caller.
publish_NoCatch(event_type, data, bad) ==
    LET hs == handlers[event_type]
        failing == {k \in 1..Len(hs) : hs[k] \in bad}
        last == IF failing = {} THEN Len(hs)
                ELSE CHOOSE k \in failing : \A j \in failing : k <= j
    IN [invoked |-> [k \in 1..last |->
                        [handler |-> hs[k], event_type |-> event_type, data |-> data,
                         raised |-> hs[k] \in bad]],
        raised |-> failing # {}]

\* EventBus.publish: every handler of the event type is called, in the order
\* of the list; an Exception of a handler is caught and printed.  bad are
\* the handlers that raise when they are called.
publish(event_type, data, bad) ==
    LET hs == handlers[event_type]
    IN [invoked |-> [k \in 1..Len(hs) |->
                        [handler |-> hs[k], event_type |-> event_type, data |-> data,
                         raised |-> hs[k] \in bad]],
        raised |-> FALSE]

\* the handlers of an event type as a set
Subscribed(event_type) == {handlers[event_type][k] : k \in 1..Len(handlers[event_type])}

(***************************************************************************)
(* A database operation inside get_connection, statement by statement.     *)
(* txn is the operation in progress: where it stands (pc), its connection  *)
(* (conn), the get_connection it runs under (app), its statement (stmt),   *)
(* the table and AUTOINCREMENT sequence as the connection sees them (work, *)
(* workseq: the committed table with the uncommitted change on top), the   *)
(* exception in flight (exc), how the operation ended (outcome), and the   *)
(* committed table and sequence when the connection was opened (before,    *)
(* beforeseq).  tasks and sqlite_sequence are what is committed.           *)
(***************************************************************************)
\* the three get_connection context managers
Apps == {"monolith", "task-service", "layered"}

\* "except Exception:" of the monolith and the task service, "except:" of
\* the layered application
Catches(app, exc) == app = "layered" \/ exc = "Exception"

\* what can be raised: an Exception (sqlite3.Error, ValueError, ...) or a
\* BaseException that is none (KeyboardInterrupt, CancelledError)
Raised == {"Exception", "BaseException"}

NoTxn ==
    [pc |-> "idle", conn |-> "none", app |-> "none", stmt |-> [op |-> "none"],
     work |-> <<>>, workseq |-> 0, exc |-> "none", outcome |-> "none",
     before |-> <<>>, beforeseq |-> 0]

(***************************************************************************)
(* The state machine.  pc[c] is the position of the request task of        *)
(* client c: "idle" (no request), "awaiting" (suspended in the await of    *)
(* the outbound call), "done" (response determined).  elapsed[c] is the    *)
(* time in seconds the outbound call has been waiting on the backend;      *)
(* httpx gives up when it reaches the call's timeout.  backend is what the *)
(* tasks backend currently does with a call.  routes is app.router.routes, *)
(* routed[c] the router's resolution of the request of c, order the        *)
(* request tasks alive on the event loop in the order they were started,   *)
(* and memo one earlier resolution kept for comparison.                    *)
(***************************************************************************)
BackendStates == {"up", "refusing", "silent"}

NoRoute == [kind |-> "none", route |-> 0]
NoMemo == [set |-> FALSE, method |-> "", path |-> <<>>, routed |-> NoRoute]

Init ==
    /\ pc = [c \in Clients |-> "idle"]
    /\ inbound = [c \in Clients |-> NoRequest]
    /\ outbound = [c \in Clients |-> NoCall]
    /\ elapsed = [c \in Clients |-> 0]
    /\ response = [c \in Clients |-> NoResponse]
    /\ sent = [c \in Clients |-> 0]
    /\ backend = "up"
    /\ routes = Routes
    /\ routed = [c \in Clients |-> NoRoute]
    /\ order = <<>>
    /\ memo = NoMemo
    /\ tasks = [i \in {} |-> NoTask]
    /\ sqlite_sequence = 0
    /\ cache = [k \in CacheKeys |-> NoEntry]
    /\ mresp = NoMonoResponse
    /\ deleted = {}
    /\ now = 0
    /\ handlers = Subscriptions
    /\ invoked = <<>>
    /\ published = <<>>
    /\ txn = NoTxn

\* the instants the clock of a call is observed at: 0, one second before
\* the timeout, the timeout, one second after it
NextInstant(t, limit) == IF t < limit - 1 THEN limit - 1 ELSE t + 1

\* Variant: the outbound call is made with a blocking client, so no request
\* is taken up while another one waits for its backend.
Receive_Blocking(c, request) ==
    /\ pc[c] = "idle"
    /\ \A d \in Clients : pc[d] # "awaiting"
    /\ inbound' = [inbound EXCEPT ![c] = request]
    /\ routed' = [routed EXCEPT ![c] = IF IsPreflight(request) THEN NoRoute
                                       ELSE Resolve(request.method, request.path)]
    /\ order' = Append(order, c)
    /\ LET d == Dispatch(request)
       IN IF d.kind = "respond"
          THEN /\ pc' = [pc EXCEPT ![c] = "done"]
               /\ response' = [response EXCEPT ![c] = Cors(request, d.resp)]
               /\ UNCHANGED <<outbound, elapsed, sent>>
          ELSE /\ pc' = [pc EXCEPT ![c] = "awaiting"]
               /\ outbound' = [outbound EXCEPT ![c] = d.call]
               /\ elapsed' = [elapsed EXCEPT ![c] = 0]
               /\ sent' = [sent EXCEPT ![c] = @ + 1]
               /\ UNCHANGED response
    /\ UNCHANGED <<backend, routes, memo, mnVars, evVars, txn>>

\* A request arrives and runs up to its first await or to its response.
\* The event loop starts the task whatever other tasks are suspended in.
Receive(c, request) ==
    /\ pc[c] = "idle"
    /\ inbound' = [inbound EXCEPT ![c] = request]
    /\ routed' = [routed EXCEPT ![c] = IF IsPreflight(request) THEN NoRoute
                                       ELSE Resolve(request.method, request.path)]
    /\ order' = Append(order, c)
    /\ LET d == Dispatch(request)
       IN IF d.kind = "respond"
          THEN /\ pc' = [pc EXCEPT ![c] = "done"]
               /\ response' = [response EXCEPT ![c] = Cors(request, d.resp)]
               /\ UNCHANGED <<outbound, elapsed, sent>>
          ELSE /\ pc' = [pc EXCEPT ![c] = "awaiting"]
               /\ outbound' = [outbound EXCEPT ![c] = d.call]
               /\ elapsed' = [elapsed EXCEPT ![c] = 0]
               /\ sent' = [sent EXCEPT ![c] = @ + 1]
               /\ UNCHANGED response
    /\ UNCHANGED <<backend, routes, memo, mnVars, evVars, txn>>

\* Time passes for a call that is open, or that was given up at its timeout.
Tick(c) ==
    /\ \/ pc[c] = "awaiting" /\ elapsed[c] < outbound[c].timeout
       \/ outbound[c].state = "timed_out" /\ elapsed[c] <= outbound[c].timeout
    /\ elapsed' = [elapsed EXCEPT ![c] = NextInstant(@, outbound[c].timeout)]
    /\ UNCHANGED <<pc, inbound, outbound, response, sent, backend, routes, routed, order, memo, mnVars, evVars, txn>>

\* The backend's HTTP response arrives before the timeout.
BackendReply(c, reply) ==
    /\ pc[c] = "awaiting"
    /\ backend = "up"
    /\ elapsed[c] < outbound[c].timeout
    /\ pc' = [pc EXCEPT ![c] = "done"]
    /\ outbound' = [outbound EXCEPT ![c].state = "answered", ![c].reply = reply]
    /\ response' = [response EXCEPT ![c] = Cors(inbound[c], OnReply(outbound[c], reply))]
    /\ UNCHANGED <<inbound, elapsed, sent, backend, routes, routed, order, memo, mnVars, evVars, txn>>

\* Variant: the calls share one client, and a call that fails takes the
\* calls of the other requests down with it.
CallFails_SharedClient(c, exc, how) ==
    LET hit == {d \in Clients : pc[d] = "awaiting"}
    IN /\ pc' = [d \in Clients |-> IF d \in hit THEN "done" ELSE pc[d]]
       /\ outbound' = [d \in Clients |->
                          IF d \in hit THEN [outbound[d] EXCEPT !.state = how, !.exc = exc]
                          ELSE outbound[d]]
       /\ response' = [d \in Clients |->
                          IF d \in hit THEN Cors(inbound[d], OnFailure(outbound[d], exc))
                          ELSE response[d]]
       /\ UNCHANGED <<inbound, elapsed, sent, backend, routes, routed, order, memo, mnVars, evVars, txn>>

\* The awaited call raises exc: the call is made again while attempts are
\* left, otherwise the failure is translated into the response.
CallFails(c, exc, how) ==
    IF sent[c] < MaxAttempts(outbound[c])
    THEN /\ sent' = [sent EXCEPT ![c] = @ + 1]
         /\ elapsed' = [elapsed EXCEPT ![c] = 0]
         /\ UNCHANGED <<pc, inbound, outbound, response, backend, routes, routed, order, memo, mnVars, evVars, txn>>
    ELSE /\ pc' = [pc EXCEPT ![c] = "done"]
         /\ outbound' = [outbound EXCEPT ![c].state = how, ![c].exc = exc]
         /\ response' = [response EXCEPT ![c] = Cors(inbound[c], OnFailure(outbound[c], exc))]
         /\ UNCHANGED <<inbound, elapsed, sent, backend, routes, routed, order, memo, mnVars, evVars, txn>>

\* The backend refuses the connection: httpx.ConnectError.
ConnectRefused(c) ==
    /\ pc[c] = "awaiting"
    /\ backend = "refusing"
    /\ elapsed[c] < outbound[c].timeout
    /\ CallFails(c, Exc("ConnectError", "All connection attempts failed"), "refused")

\* Variant: the client is built with timeout=None and waits without bound.
TimeoutExpire_NoTimeout(c, class) == FALSE /\ UNCHANGED vars

\* Nothing came back within the timeout: an httpx.TimeoutException.
TimeoutExpire(c, class) ==
    /\ pc[c] = "awaiting"
    /\ elapsed[c] = outbound[c].timeout
    /\ CallFails(c, Exc(class, ""), "timed_out")

\* Any other fault of the transport.
TransportFault(c, exc) ==
    /\ pc[c] = "awaiting"
    /\ elapsed[c] < outbound[c].timeout
    /\ CallFails(c, exc, "failed")

\* The backend answers a call the gateway has already given up.
LateReply(c, reply) ==
    /\ pc[c] = "done"
    /\ outbound[c].state = "timed_out"
    /\ elapsed[c] > outbound[c].timeout
    /\ backend = "up"
    /\ outbound' = [outbound EXCEPT ![c].state = "late_dropped"]
    /\ response' = [response EXCEPT ![c] = AfterLateReply(@, reply)]
    /\ UNCHANGED <<pc, inbound, elapsed, sent, backend, routes, routed, order, memo, mnVars, evVars, txn>>

\* The response has gone out and the request task ends.
Finish(c) ==
    /\ pc[c] = "done"
    /\ pc' = [pc EXCEPT ![c] = "idle"]
    /\ inbound' = [inbound EXCEPT ![c] = NoRequest]
    /\ outbound' = [outbound EXCEPT ![c] = NoCall]
    /\ elapsed' = [elapsed EXCEPT ![c] = 0]
    /\ response' = [response EXCEPT ![c] = NoResponse]
    /\ sent' = [sent EXCEPT ![c] = 0]
    /\ routed' = [routed EXCEPT ![c] = NoRoute]
    /\ order' = SelectSeq(order, LAMBDA x : x # c)
    /\ UNCHANGED <<backend, routes, memo, mnVars, evVars, txn>>

\* A forwarding endpoint raises before the try block of forward_request is
\* entered: in "await request.body()" (the routes and methods that read the
\* body), in "dict(request.headers)" or in "httpx.AsyncClient(timeout=30.0)".
\* No except clause of the gateway catches it; ServerErrorMiddleware, which
\* lies outside CORSMiddleware, answers with the handler registered for 500.
\* No outbound call was made.
InternalFault(c, request, fault) ==
    /\ pc[c] = "idle"
    /\ LET d == Dispatch(request)
       IN /\ d.kind # "respond"
          /\ d.call.kind = "forward"
          /\ fault.phase = "body" => d.call.content.some
    /\ inbound' = [inbound EXCEPT ![c] = request]
    /\ routed' = [routed EXCEPT ![c] = Resolve(request.method, request.path)]
    /\ order' = Append(order, c)
    /\ pc' = [pc EXCEPT ![c] = "done"]
    /\ outbound' = [outbound EXCEPT ![c] = [NoCall EXCEPT !.state = fault.phase,
                                                          !.exc = fault.exc]]
    /\ response' = [response EXCEPT ![c] = internal_error_handler]
    /\ UNCHANGED <<elapsed, sent, backend, routes, memo, mnVars, evVars, txn>>

\* The tasks backend goes down, goes silent or comes back.
BackendChange(s) ==
    /\ s # backend
    /\ backend' = s
    /\ UNCHANGED <<pc, inbound, outbound, elapsed, response, sent, routes, routed, order, memo, mnVars, evVars, txn>>

\* The resolution of the request just answered is noted, to be compared
\* with the resolution of later requests.
Remember(c) ==
    /\ pc[c] = "done"
    /\ routed[c] # NoRoute
    /\ memo' = [set |-> TRUE, method |-> inbound[c].method, path |-> inbound[c].path,
                routed |-> routed[c]]
    /\ UNCHANGED <<pc, inbound, outbound, elapsed, response, sent, backend, routes, routed, order, mnVars, evVars, txn>>

\* One client at a time, every request of the alphabet.
Next ==
    \/ pc["c1"] = "idle" /\ \E request \in Requests : Receive("c1", request)
    \/ Tick("c1")
    \/ \E reply \in BackendReplies : BackendReply("c1", reply)
    \/ ConnectRefused("c1")
    \/ \E class \in TimeoutExceptions : TimeoutExpire("c1", class)
    \/ \E exc \in OtherFaults : TransportFault("c1", exc)
    \/ \E reply \in BackendReplies : LateReply("c1", reply)
    \/ Finish("c1")
    \/ \E s \in BackendStates : BackendChange(s)

Spec == Init /\ [][Next]_vars

\* The gateway as above, with the faults of forward_request outside its try
\* block.
NextFaults ==
    \/ Next
    \/ pc["c1"] = "idle" /\ \E request \in Requests : \E fault \in InternalFaults :
          InternalFault("c1", request, fault)

SpecFaults == Init /\ [][NextFaults]_vars

\* requests that differ in method and path only
BareRequests ==
    [method : Methods, path : Paths, query : {<<>>},
     headers : {<< <<"host", "localhost:8006">> >>}, body : {""}]

\* One client, the bare requests, and a note of one earlier resolution.
NextRouting ==
    \/ pc["c1"] = "idle" /\ \E request \in BareRequests : Receive("c1", request)
    \/ Remember("c1")
    \/ Tick("c1")
    \/ \E reply \in BackendReplies : BackendReply("c1", reply)
    \/ ConnectRefused("c1")
    \/ \E class \in TimeoutExceptions : TimeoutExpire("c1", class)
    \/ \E exc \in OtherFaults : TransportFault("c1", exc)
    \/ \E reply \in BackendReplies : LateReply("c1", reply)
    \/ Finish("c1")
    \/ \E s \in BackendStates : BackendChange(s)

SpecRouting == Init /\ [][NextRouting]_vars

\* a forwarded request, a health call, a placeholder, the root and an
\* unmatched path, and a forwarded request with a query, a header and a body
ConcRequests ==
    [method : {"GET"},
     path : {<<SegTasks, <<"4", "2">>>>, <<SegHealth>>, <<SegUsers>>, <<>>, <<SegNope>>},
     query : {<<>>}, headers : {<< <<"host", "localhost:8006">> >>}, body : {""}]
    \cup
    { [method |-> "POST", path |-> <<SegTasks>>, query |-> << <<"k", "1">> >>,
       headers |-> << <<"host", "localhost:8006">>, <<"accept", "text/plain">> >>,
       body |-> "{\"title\":\"x\"}"] }

ConcReplies ==
    { [status |-> 200, body |-> "[{\"id\":1,\"title\":\"x\"}]", headers |-> JsonHeaders],
      [status |-> 404, body |-> "{\"detail\":\"Task not found\"}", headers |-> JsonHeaders] }

\* Two clients whose request tasks interleave on the event loop.
NextConc ==
    \E c \in Clients :
        \/ pc[c] = "idle" /\ \E request \in ConcRequests : Receive(c, request)
        \/ Tick(c)
        \/ \E reply \in ConcReplies : BackendReply(c, reply)
        \/ ConnectRefused(c)
        \/ \E class \in TimeoutExceptions : TimeoutExpire(c, class)
        \/ \E exc \in OtherFaults : TransportFault(c, exc)
        \/ \E reply \in ConcReplies : LateReply(c, reply)
        \/ Finish(c)
        \/ \E s \in BackendStates : BackendChange(s)

SpecConc == Init /\ [][NextConc]_vars

\* Time does not stop and a timer that is due fires: the event loop runs
\* httpx's timeout of every open call.
Fairness ==
    \A c \in Clients :
        /\ WF_vars(Tick(c))
        /\ WF_vars(\E class \in TimeoutExceptions : TimeoutExpire(c, class))

FairSpecConc == Init /\ [][NextConc]_vars /\ Fairness

(***************************************************************************)
(* Rate limiter: @limiter.limit("<n>/minute") in front of every endpoint,  *)
(* one count per endpoint and client address in a window of a minute.  The *)
(* count is not kept: between two requests of the model the client may     *)
(* have sent, within the window, any number of requests to the same        *)
(* endpoint that change nothing (a GET, a write to an id that is not       *)
(* stored), so the limit of the endpoint may be used up at any request.    *)
(* POST /tasks is the exception: every counted request stores a task, and  *)
(* its limit of 20 lies beyond the tasks of the model.                     *)
(***************************************************************************)
RateLimited == {"get_tasks", "get_task", "update_task", "update_task_status", "delete_task"}

\* _rate_limit_exceeded_handler: 429, the endpoint function is not run
TooManyRequests(op, arg) ==
    /\ op \in RateLimited
    /\ mresp' = MonoResponse(op, arg, 429, NoTask, <<>>)
    /\ UNCHANGED <<tasks, sqlite_sequence, cache, deleted, now>>

(***************************************************************************)
(* Endpoints of the monolith                                               *)
(***************************************************************************)
\* POST /tasks
create_task(task_data) ==
    /\ MaxOf(DOMAIN tasks \cup {sqlite_sequence}) < MaxTasks
    /\ LET task == Task(0,
                        sanitize_string(task_data.title),
                        sanitize_string(task_data.description),
                        task_data.status,
                        task_data.priority,
                        task_data.user_id,
                        task_data.project_id,
                        now,
                        task_data.due_date,
                        sanitize_tags(task_data.tags))
           created_task == db_create_task(task)
       IN /\ tasks' = created_task.tasks
          /\ sqlite_sequence' = created_task.sqlite_sequence
          /\ cache' = invalidate_cache
          /\ mresp' = MonoResponse("create_task", created_task.task.id, 201,
                                   created_task.task, <<>>)
    /\ UNCHANGED <<deleted, now>>
    /\ UNCHANGED <<gwVars, evVars, txn>>

\* GET /tasks[?user_id=]
get_tasks(user_id) ==
    /\ \/ TooManyRequests("get_tasks", user_id)
       \/ /\ LET cached == get_cached_tasks(user_id)
             IN IF cached.hit
                THEN /\ mresp' = MonoResponse("get_tasks", user_id, 200, NoTask, cached.data)
                     /\ UNCHANGED cache
                ELSE LET list == db_get_tasks(user_id)
                     IN /\ cache' = set_cached_tasks(list, user_id)
                        /\ mresp' = MonoResponse("get_tasks", user_id, 200, NoTask, list)
          /\ UNCHANGED <<tasks, sqlite_sequence, deleted, now>>
    /\ UNCHANGED <<gwVars, evVars, txn>>

\* GET /tasks/{task_id}
get_task(task_id) ==
    /\ \/ TooManyRequests("get_task", task_id)
       \/ /\ LET task == db_get_task(task_id)
             IN mresp' = IF task = NoTask
                         THEN MonoResponse("get_task", task_id, 404, NoTask, <<>>)
                         ELSE MonoResponse("get_task", task_id, 200, task, <<>>)
          /\ UNCHANGED <<tasks, sqlite_sequence, cache, deleted, now>>
    /\ UNCHANGED <<gwVars, evVars, txn>>

\* PUT /tasks/{task_id}
update_task(task_id, task_data) ==
    /\ \/ TooManyRequests("update_task", task_id)
       \/ /\ IF db_get_task(task_id) = NoTask
             THEN /\ mresp' = MonoResponse("update_task", task_id, 404, NoTask, <<>>)
                  /\ UNCHANGED <<tasks, cache>>
             ELSE LET existing_task == db_get_task(task_id)
                      task == Task(task_id,
                                   sanitize_string(task_data.title),
                                   sanitize_string(task_data.description),
                                   task_data.status,
                                   task_data.priority,
                                   task_data.user_id,
                                   task_data.project_id,
                                   existing_task.created_at,
                                   task_data.due_date,
                                   sanitize_tags(task_data.tags))
                      updated_task == db_update_task(task_id, task)
                  IN /\ tasks' = updated_task.tasks
                     /\ cache' = invalidate_cache
                     /\ mresp' = MonoResponse("update_task", task_id, 200,
                                              updated_task.task, <<>>)
          /\ UNCHANGED <<sqlite_sequence, deleted, now>>
    /\ UNCHANGED <<gwVars, evVars, txn>>

\* PATCH /tasks/{task_id}/status
update_task_status(task_id, status_data) ==
    /\ \/ TooManyRequests("update_task_status", task_id)
       \/ /\ LET updated == db_update_task_status(task_id, status_data.status)
             IN IF updated.rowcount = 0
                THEN /\ mresp' = MonoResponse("update_task_status", task_id, 404, NoTask, <<>>)
                     /\ UNCHANGED <<tasks, cache>>
                ELSE /\ tasks' = updated.tasks
                     /\ cache' = invalidate_cache
                     /\ mresp' = MonoResponse("update_task_status", task_id, 200,
                                              updated.tasks[task_id], <<>>)
          /\ UNCHANGED <<sqlite_sequence, deleted, now>>
    /\ UNCHANGED <<gwVars, evVars, txn>>

\* DELETE /tasks/{task_id}
delete_task(task_id) ==
    /\ \/ TooManyRequests("delete_task", task_id)
       \/ /\ LET result == db_delete_task(task_id)
             IN IF result.rowcount = 0
                THEN /\ mresp' = MonoResponse("delete_task", task_id, 404, NoTask, <<>>)
                     /\ UNCHANGED <<tasks, cache, deleted>>
                ELSE /\ tasks' = result.tasks
                     /\ cache' = invalidate_cache
                     /\ deleted' = deleted \cup {task_id}
                     /\ mresp' = MonoResponse("delete_task", task_id, 204, NoTask, <<>>)
          /\ UNCHANGED <<sqlite_sequence, now>>
    /\ UNCHANGED <<gwVars, evVars, txn>>

\* Time passes: the clock reaches a later instant.
Elapse(t) ==
    /\ t > now
    /\ now' = t
    /\ UNCHANGED <<tasks, sqlite_sequence, cache, mresp, deleted>>
    /\ UNCHANGED <<gwVars, evVars, txn>>

NextMonolith ==
    \/ \E task_data \in OfFirstUser(TaskCreate) : create_task(task_data)
    \/ \E user_id \in {0, 1} : get_tasks(user_id)
    \/ \E task_id \in TaskIds : get_task(task_id)
    \/ \E task_id \in TaskIds : \E task_data \in OfFirstUser(TaskUpdate) :
          update_task(task_id, task_data)
    \/ \E task_id \in TaskIds : \E status_data \in TaskStatusUpdate :
          update_task_status(task_id, status_data)
    \/ \E task_id \in TaskIds : delete_task(task_id)
    \/ \E t \in Instants : Elapse(t)

SpecMonolith == Init /\ [][NextMonolith]_vars

\* The writes and the lists of the monolith with tasks of two users and
\* the lists of either user and of both, at one instant.
NextCache ==
    \/ \E task_data \in Plain(TaskCreate) : create_task(task_data)
    \/ \E user_id \in Filters : get_tasks(user_id)
    \/ \E task_id \in TaskIds : \E task_data \in Plain(TaskUpdate) :
          update_task(task_id, task_data)
    \/ \E task_id \in TaskIds : \E status_data \in TaskStatusUpdate :
          update_task_status(task_id, status_data)
    \/ \E task_id \in TaskIds : delete_task(task_id)

SpecCache == Init /\ [][NextCache]_vars

\* The lists of the monolith as time passes, second by second around the
\* TTL.
NextExpiry ==
    \/ \E task_data \in OfFirstUser(Plain(TaskCreate)) : create_task(task_data)
    \/ \E user_id \in Filters : get_tasks(user_id)
    \/ \E t \in FineInstants : Elapse(t)

SpecExpiry == Init /\ [][NextExpiry]_vars

(***************************************************************************)
(* Event bus and endpoints of the event-driven application.  The endpoint  *)
(* functions await nothing but publish, whose handlers only print, so a    *)
(* request runs from its arrival to its response in one step.              *)
(***************************************************************************)
\* the answer to an exception that nothing catches
Uncaught(op, arg) == MonoResponse(op, arg, 500, NoTask, <<>>)

\* an event as it is published: its type, its data {"task_id": ...} and the
\* committed table at the time publish is called
Event(event_type, task_id, table) ==
    [event_type |-> event_type, task_id |-> task_id, table |-> table]

\* EventBus.subscribe: the handler is appended to the list of the type
subscribe(event_type, handler) ==
    /\ Len(handlers[event_type]) < MaxHandlers
    /\ handlers' = [handlers EXCEPT ![event_type] = Append(@, handler)]
    /\ UNCHANGED <<invoked, published, gwVars, mnVars, txn>>

\* POST /tasks: Task(**task_data.dict()), db.create_task, publish, 201
ev_create_task(task_data, bad) ==
    /\ MaxOf(DOMAIN tasks \cup {sqlite_sequence}) < MaxTasks
    /\ LET task == Task(0, task_data.title, task_data.description, task_data.status,
                        task_data.priority, task_data.user_id, task_data.project_id,
                        now, task_data.due_date, task_data.tags)
           created_task == db_create_task(task)
           pub == publish("task.created", created_task.task.id, bad)
       IN /\ tasks' = created_task.tasks
          /\ sqlite_sequence' = created_task.sqlite_sequence
          /\ invoked' = pub.invoked
          /\ published' = <<Event("task.created", created_task.task.id, created_task.tasks)>>
          /\ mresp' = IF pub.raised THEN Uncaught("create_task", created_task.task.id)
                      ELSE MonoResponse("create_task", created_task.task.id, 201,
                                        created_task.task, <<>>)
    /\ UNCHANGED <<cache, deleted, now, handlers, gwVars, txn>>

\* the common part of PUT /tasks/{task_id} and PATCH /tasks/{task_id}/status
\* once the task was found: db.update_task and publish.  Database.update_task
\* reads the task again inside its own "with" block, over a second
\* connection and before the commit, so the task it returns is the row as it
\* was committed before the UPDATE.
UpdateAndPublish(op, task_id, task, bad) ==
    LET updated == db_update_task(task_id, task)
        updated_task == db_get_task(task_id)
        pub == publish("task.updated", task_id, bad)
    IN /\ tasks' = updated.tasks
       /\ invoked' = pub.invoked
       /\ published' = <<Event("task.updated", task_id, updated.tasks)>>
       /\ mresp' = IF pub.raised THEN Uncaught(op, task_id)
                   ELSE MonoResponse(op, task_id, 200, updated_task, <<>>)

\* raise HTTPException(404, "Task not found")
TaskNotFound(op, task_id) ==
    /\ mresp' = MonoResponse(op, task_id, 404, NoTask, <<>>)
    /\ invoked' = <<>>
    /\ published' = <<>>
    /\ UNCHANGED tasks

\* PUT /tasks/{task_id}
ev_update_task(task_id, task_data, bad) ==
    /\ LET task == db_get_task(task_id)
       IN IF task = NoTask THEN TaskNotFound("update_task", task_id)
          ELSE UpdateAndPublish("update_task", task_id,
                                Task(task_id, task_data.title, task_data.description,
                                     task_data.status, task_data.priority, task_data.user_id,
                                     task_data.project_id, task.created_at,
                                     task_data.due_date, task_data.tags),
                                bad)
    /\ UNCHANGED <<sqlite_sequence, cache, deleted, now, handlers, gwVars, txn>>

\* PATCH /tasks/{task_id}/status?status=
ev_update_status(task_id, status, bad) ==
    /\ LET task == db_get_task(task_id)
       IN IF task = NoTask THEN TaskNotFound("update_status", task_id)
          ELSE UpdateAndPublish("update_status", task_id, [task EXCEPT !.status = status], bad)
    /\ UNCHANGED <<sqlite_sequence, cache, deleted, now, handlers, gwVars, txn>>

\* Variant: DELETE that does not look at what db.delete_task returns; it
\* publishes task.deleted and answers 204 whether or not a row went.
ev_delete_task_NoCheck(task_id, bad) ==
    /\ LET result == db_delete_task(task_id)
           pub == publish("task.deleted", task_id, bad)
       IN /\ tasks' = result.tasks
          /\ invoked' = pub.invoked
          /\ published' = <<Event("task.deleted", task_id, result.tasks)>>
          /\ mresp' = MonoResponse("delete_task", task_id, 204, NoTask, <<>>)
    /\ UNCHANGED <<sqlite_sequence, cache, deleted, now, handlers, gwVars, txn>>

\* DELETE /tasks/{task_id}
ev_delete_task(task_id, bad) ==
    /\ LET result == db_delete_task(task_id)
       IN IF result.rowcount = 0 THEN TaskNotFound("delete_task", task_id)
          ELSE LET pub == publish("task.deleted", task_id, bad)
               IN /\ tasks' = result.tasks
                  /\ invoked' = pub.invoked
                  /\ published' = <<Event("task.deleted", task_id, result.tasks)>>
                  /\ mresp' = IF pub.raised THEN Uncaught("delete_task", task_id)
                              ELSE MonoResponse("delete_task", task_id, 204, NoTask, <<>>)
    /\ UNCHANGED <<sqlite_sequence, cache, deleted, now, handlers, gwVars, txn>>

\* The event-driven application: its endpoints with any choice of handlers
\* that raise, and further subscriptions.
NextEvents ==
    \/ \E task_data \in OfFirstUser(Plain(TaskCreate)) :
          \E bad \in SUBSET Subscribed("task.created") : ev_create_task(task_data, bad)
    \/ \E task_id \in TaskIds : \E task_data \in OfFirstUser(Plain(TaskUpdate)) :
          \E bad \in SUBSET Subscribed("task.updated") : ev_update_task(task_id, task_data, bad)
    \/ \E task_id \in TaskIds : \E status \in TaskStatus :
          \E bad \in SUBSET Subscribed("task.updated") : ev_update_status(task_id, status, bad)
    \/ \E task_id \in TaskIds :
          \E bad \in SUBSET Subscribed("task.deleted") : ev_delete_task(task_id, bad)
    \/ \E event_type \in EventTypes : subscribe(event_type, "audit")

SpecEvents == Init /\ [][NextEvents]_vars

(***************************************************************************)
(* get_connection and the operation in its with-block, one step for each   *)
(* of connect, the statement, an exception, commit, the except clause and  *)
(* the finally clause.                                                     *)
(***************************************************************************)
\* the write statements of the operations: INSERT, UPDATE ... SET status,
\* DELETE
Statements ==
    {[op |-> "create_task", task_id |-> 0, status |-> status] : status \in TaskStatus}
        \cup {[op |-> "update_task_status", task_id |-> task_id, status |-> status] :
                  task_id \in TaskIds, status \in TaskStatus}
        \cup {[op |-> "delete_task", task_id |-> task_id, status |-> "todo"] :
                  task_id \in TaskIds}

\* cursor.execute of the statement on the committed table
Executed(stmt) ==
    CASE stmt.op = "create_task" ->
            LET created == db_create_task(Task(0, <<"x">>, <<"d">>, stmt.status, "high",
                                               1, 1, now, 120, <<>>))
            IN [tasks |-> created.tasks, sqlite_sequence |-> created.sqlite_sequence]
      [] stmt.op = "update_task_status" ->
            [tasks |-> db_update_task_status(stmt.task_id, stmt.status).tasks,
             sqlite_sequence |-> sqlite_sequence]
      [] stmt.op = "delete_task" ->
            [tasks |-> db_delete_task(stmt.task_id).tasks, sqlite_sequence |-> sqlite_sequence]

\* with self.get_connection() as conn: sqlite3.connect, up to the yield
get_connection(app, stmt) ==
    /\ txn.pc \in {"idle", "done"}
    /\ stmt.op = "create_task" => MaxOf(DOMAIN tasks \cup {sqlite_sequence}) < MaxTasks
    /\ txn' = [pc |-> "block", conn |-> "open", app |-> app, stmt |-> stmt,
               work |-> tasks, workseq |-> sqlite_sequence, exc |-> "none",
               outcome |-> "none", before |-> tasks, beforeseq |-> sqlite_sequence]
    /\ UNCHANGED <<gwVars, mnVars, evVars>>

\* cursor.execute(...): the change is made in the transaction of the
\* connection, not yet in the committed table
execute ==
    /\ txn.pc = "block"
    /\ LET done == Executed(txn.stmt)
       IN txn' = [txn EXCEPT !.pc = "executed", !.work = done.tasks,
                             !.workseq = done.sqlite_sequence]
    /\ UNCHANGED <<gwVars, mnVars, evVars>>

\* the block raises, before the statement, in it, or after it
raise(exc) ==
    /\ txn.pc \in {"block", "executed"}
    /\ txn' = [txn EXCEPT !.pc = "except", !.exc = exc]
    /\ UNCHANGED <<gwVars, mnVars, evVars>>

\* the block is over: conn.commit(), which writes the transaction or fails
\* with sqlite3.OperationalError and writes nothing
commit(ok) ==
    /\ txn.pc = "executed"
    /\ IF ok
       THEN /\ tasks' = txn.work
            /\ sqlite_sequence' = txn.workseq
            /\ txn' = [txn EXCEPT !.pc = "finally"]
       ELSE /\ txn' = [txn EXCEPT !.pc = "except", !.exc = "Exception"]
            /\ UNCHANGED <<tasks, sqlite_sequence>>
    /\ UNCHANGED <<cache, mresp, deleted, now, gwVars, evVars>>

\* the except clause: conn.rollback() and raise, when the clause catches
\* the exception; otherwise the exception passes it by
rollback ==
    /\ txn.pc = "except"
    /\ txn' = IF Catches(txn.app, txn.exc)
              THEN [txn EXCEPT !.pc = "finally", !.work = tasks, !.workseq = sqlite_sequence]
              ELSE [txn EXCEPT !.pc = "finally"]
    /\ UNCHANGED <<gwVars, mnVars, evVars>>

\* Variant: the finally clause commits before it closes.
close_Commit ==
    /\ txn.pc = "finally"
    /\ tasks' = txn.work
    /\ sqlite_sequence' = txn.workseq
    /\ txn' = [txn EXCEPT !.pc = "done", !.conn = "closed",
                          !.outcome = IF txn.exc = "none" THEN "returned" ELSE "raised"]
    /\ UNCHANGED <<cache, mresp, deleted, now, gwVars, evVars>>

\* the finally clause: conn.close(); what the connection has not committed
\* is never written
close ==
    /\ txn.pc = "finally"
    /\ txn' = [txn EXCEPT !.pc = "done", !.conn = "closed",
                          !.outcome = IF txn.exc = "none" THEN "returned" ELSE "raised"]
    /\ UNCHANGED <<gwVars, mnVars, evVars>>

\* Operations one after another, each under any of the three
\* get_connection.
NextTxn ==
    \/ \E app \in Apps : \E stmt \in Statements : get_connection(app, stmt)
    \/ execute
    \/ \E exc \in Raised : raise(exc)
    \/ \E ok \in BOOLEAN : commit(ok)
    \/ rollback
    \/ close

SpecTxn == Init /\ [][NextTxn]_vars

(***************************************************************************)
(* Properties                                                              *)
(***************************************************************************)
\* the routes as the interface description lists them
ListedRoutes ==
    { [pattern |-> <<>>, methods |-> {"GET"}],
      [pattern |-> <<Lit(SegHealth)>>, methods |-> {"GET"}],
      [pattern |-> <<Lit(SegTasks)>>, methods |-> {"GET", "POST"}],
      [pattern |-> <<Lit(SegTasks), Param>>, methods |-> {"GET", "PUT", "PATCH", "DELETE"}],
      [pattern |-> <<Lit(SegTasks), Param, Lit(SegStatus)>>, methods |-> {"PATCH"}],
      [pattern |-> <<Lit(SegUsers)>>, methods |-> {"GET", "POST"}],
      [pattern |-> <<Lit(SegProjects)>>, methods |-> {"GET", "POST"}] }

MatchesListed(path) == \E r \in ListedRoutes : PathMatches(r.pattern, path)

MethodNotListed(method, path) ==
    \E r \in ListedRoutes : PathMatches(r.pattern, path) /\ method \notin r.methods

DocPaths == {<<SegOpenapi>>, <<SegDocs>>, <<SegDocs, SegOauth>>, <<SegRedoc>>}

SlashVariant(path) ==
    /\ path # <<>>
    /\ MatchesListed(ToggleSlash(path)) \/ ToggleSlash(path) \in DocPaths

IsResourceNotFound(resp) ==
    resp.status = 404 /\ resp.body = "{\"detail\":\"Resource not found\"}"

PathTasks == <<SegTasks>>
PathTask42 == <<SegTasks, <<"4", "2">>>>
PathTask42Status == <<SegTasks, <<"4", "2">>, SegStatus>>

C3_PlaceholdersAnswer501 ==
    \A c \in Clients :
        /\ inbound[c].method \in {"GET", "POST"} /\ inbound[c].path = <<SegUsers>>
           => /\ pc[c] = "done"
              /\ response[c].status = 501
              /\ response[c].body = "{\"detail\":\"User service not implemented yet\"}"
              /\ sent[c] = 0
              /\ outbound[c] = NoCall
        /\ inbound[c].method \in {"GET", "POST"} /\ inbound[c].path = <<SegProjects>>
           => /\ pc[c] = "done"
              /\ response[c].status = 501
              /\ response[c].body = "{\"detail\":\"Project service not implemented yet\"}"
              /\ sent[c] = 0
              /\ outbound[c] = NoCall

C3_Witness ==
    \E c \in Clients :
        /\ pc[c] = "done"
        /\ inbound[c].method = "GET"
        /\ inbound[c].path = <<SegUsers>>
        /\ backend = "refusing"
        /\ response[c].status = 501
        /\ sent[c] = 0

\* C4: a forwarded request whose backend refuses the connection is
\* answered 503 {"detail": "Service unavailable: <tasks base URL>"}.
C4_RefusedIs503 ==
    \A c \in Clients :
        outbound[c].kind = "forward" /\ outbound[c].state = "refused"
        => /\ pc[c] = "done"
           /\ response[c].status = 503
           /\ response[c].body = "{\"detail\":\"Service unavailable: http://localhost:8003\"}"

C4_Witness ==
    \E c \in Clients :
        /\ outbound[c].state = "refused"
        /\ inbound[c].method = "POST"
        /\ inbound[c].path = PathTasks
        /\ outbound[c].url.path = PathTasks
        /\ response[c].status = 503

\* C5: a forwarded request whose backend has not replied when the 30 second
\* timeout is reached is answered 504 {"detail": "Service timeout: <tasks
\* base URL>"}, and a reply arriving afterwards leaves that response as it
\* is.
C5_TimeoutIs504 ==
    \A c \in Clients :
        outbound[c].kind = "forward" /\ pc[c] = "done" /\ elapsed[c] >= 30
        => /\ outbound[c].state \in {"timed_out", "late_dropped"}
           /\ response[c].status = 504
           /\ response[c].body = "{\"detail\":\"Service timeout: http://localhost:8003\"}"

C5_Witness ==
    \E c \in Clients :
        /\ outbound[c].kind = "forward"
        /\ outbound[c].state = "late_dropped"
        /\ inbound[c].method = "GET"
        /\ inbound[c].path = PathTask42
        /\ elapsed[c] = 31
        /\ response[c].status = 504

\* C6: when the backend returns an HTTP response, whatever its status, the
\* client gets that status and that body.
C6_ReplyPassedThrough ==
    \A c \in Clients :
        outbound[c].kind = "forward" /\ outbound[c].state = "answered"
        => /\ pc[c] = "done"
           /\ response[c].status = outbound[c].reply.status
           /\ response[c].body = outbound[c].reply.body

C6_Witness ==
    \E c \in Clients :
        /\ outbound[c].kind = "forward"
        /\ outbound[c].state = "answered"
        /\ outbound[c].reply.status = 404
        /\ outbound[c].reply.body = "{\"detail\":\"Task not found\"}"
        /\ response[c].status = 404
        /\ response[c].body = "{\"detail\":\"Task not found\"}"

\* C7 as stated: the outbound call of a forwarded request carries the
\* inbound method and exactly the inbound sequence of query (key, value)
\* pairs, repeated keys included.
C7_QueryPreserved ==
    \A c \in Clients :
        outbound[c].kind = "forward"
        => /\ outbound[c].method = inbound[c].method
           /\ outbound[c].params = inbound[c].query

\* C8 as stated: the outbound headers of a forwarded request are the
\* inbound headers without the Host header, none other dropped, none added
\* or changed.
C8_HeadersPreserved ==
    \A c \in Clients :
        outbound[c].kind = "forward"
        => {outbound[c].headers[i] : i \in 1..Len(outbound[c].headers)}
           = {inbound[c].headers[i] :
                 i \in {j \in 1..Len(inbound[c].headers) : inbound[c].headers[j][1] # "host"}}

CarriesBody(method, path) ==
    \/ method = "POST" /\ path = PathTasks
    \/ method \in {"PUT", "PATCH"} /\ Len(path) = 2
    \/ method = "PATCH" /\ Len(path) = 3

\* C9: the outbound call carries the inbound body unchanged for POST
\* /tasks, PUT and PATCH /tasks/{id} and PATCH /tasks/{id}/status, and no
\* body for GET and DELETE, even when the inbound request had one.
C9_BodyForwarded ==
    \A c \in Clients :
        outbound[c].kind = "forward"
        => outbound[c].content =
              IF CarriesBody(inbound[c].method, inbound[c].path)
              THEN [some |-> TRUE, bytes |-> inbound[c].body]
              ELSE [some |-> FALSE, bytes |-> ""]

C9_Witness ==
    \E c \in Clients :
        /\ outbound[c].kind = "forward"
        /\ inbound[c].method = "DELETE"
        /\ inbound[c].path = PathTask42
        /\ inbound[c].body # ""
        /\ ~outbound[c].content.some

\* C10: a request causes at most one outbound call, and a failed call ends
\* the request with its one failure response, without a second attempt.
C10_NoRetry ==
    \A c \in Clients :
        /\ sent[c] <= 1
        /\ outbound[c].state \in {"refused", "timed_out", "failed", "late_dropped"}
           => /\ pc[c] = "done"
              /\ sent[c] = 1
              /\ outbound[c].kind = "forward" => response[c].status \in {500, 503, 504}

C10_Witness ==
    \E c \in Clients :
        /\ outbound[c].kind = "forward"
        /\ outbound[c].state = "failed"
        /\ pc[c] = "done"
        /\ sent[c] = 1
        /\ response[c].status = 500

\* a response the gateway took over from the backend
PassThrough(c) == outbound[c].kind = "forward" /\ outbound[c].state = "answered"

\* the status/body pairs of the failure translations, the placeholder
\* routes and the 404 handler
InTranslatorTable(resp) ==
    \/ resp.status = 503
       /\ resp.body = "{\"detail\":\"Service unavailable: http://localhost:8003\"}"
    \/ resp.status = 504
       /\ resp.body = "{\"detail\":\"Service timeout: http://localhost:8003\"}"
    \/ resp.status = 500
       /\ \E exc \in OtherFaults :
             resp.body = "{\"detail\":\"Gateway error: " \o exc.message \o "\"}"
    \/ resp.status = 501
       /\ resp.body \in {"{\"detail\":\"User service not implemented yet\"}",
                         "{\"detail\":\"Project service not implemented yet\"}"}
    \/ IsResourceNotFound(resp)

IsOwn200(req, resp) ==
    resp.status = 200 /\ req.method = "GET" /\ req.path \in {<<>>, <<SegHealth>>}

IsInternalServerError(resp) ==
    resp.status = 500 /\ resp.body = "{\"detail\":\"Internal server error\"}"

\* what the framework and the CORS middleware answer on their own
IsFrameworkResponse(req, resp) ==
    \/ resp.status = 405 /\ resp.body = "{\"detail\":\"Method Not Allowed\"}"
    \/ /\ resp.status = 422
       /\ Len(req.path) \in {2, 3}
       /\ req.path[1] = SegTasks
    \/ resp.status = 307 /\ resp.body = ""
    \/ resp.status = 200 /\ req.method \in {"GET", "HEAD"} /\ req.path \in DocPaths
    \/ IsPreflight(req) /\ resp.status \in {200, 400}

OnIdRoute(req) ==
    \/ /\ Len(req.path) = 2
       /\ req.path[1] = SegTasks
       /\ req.path[2] # SegEmpty
       /\ req.method \in {"GET", "PUT", "PATCH", "DELETE"}
    \/ /\ Len(req.path) = 3
       /\ req.path[1] = SegTasks
       /\ req.path[2] # SegEmpty
       /\ req.path[3] = SegStatus
       /\ req.method = "PATCH"

ForwardedToTasks(c) ==
    /\ outbound[c].kind = "forward"
    /\ outbound[c].service_url = "http://localhost:8003"
    /\ sent[c] = 1

AllDigits(seg) == \A i \in 1..Len(seg) : seg[i] \in {"0", "1", "2", "3", "4", "5", "6", "7", "8", "9"}
NoDigit(seg) == \A i \in 1..Len(seg) : seg[i] \notin {"0", "1", "2", "3", "4", "5", "6", "7", "8", "9"}

C13_ResolutionDeterministic ==
    \A c \in Clients :
        pc[c] # "idle"
        => /\ routes = Routes
           /\ Cardinality({i \in 1..Len(routes) :
                              /\ PathMatches(routes[i].pattern, inbound[c].path)
                              /\ inbound[c].method \in routes[i].methods}) <= 1
           /\ ~ /\ PathMatches(<<Lit(SegTasks), Param>>, inbound[c].path)
                /\ PathMatches(<<Lit(SegTasks), Param, Lit(SegStatus)>>, inbound[c].path)
           /\ /\ memo.set
              /\ memo.method = inbound[c].method
              /\ memo.path = inbound[c].path
              /\ routed[c] # NoRoute
              => routed[c] = memo.routed

\* the same PATCH /tasks/42/status is resolved a second time, after the
\* backend went down, to the route it was resolved to before
C13_Witness ==
    \E c \in Clients :
        /\ pc[c] = "awaiting"
        /\ backend = "refusing"
        /\ memo.set
        /\ memo.method = "PATCH"
        /\ memo.path = PathTask42Status
        /\ inbound[c].method = "PATCH"
        /\ inbound[c].path = PathTask42Status
        /\ routed[c].kind = "route"
        /\ routed[c] = memo.routed
        /\ routes[routed[c].route].endpoint = "task_status_route"

ReportBody(status) ==
    "{\"gateway\":\"healthy\",\"services\":{\"task-service\":\"" \o status \o "\"}}"

IsHealthRequest(req) == req.method = "GET" /\ req.path = <<SegHealth>>

\* C14: the task-service entry of a health report comes from the probe of
\* that call, GET <tasks base URL>/health: "healthy" when the probe was
\* answered 200, "unhealthy" when it was answered with another status,
\* "unreachable" when it failed to connect or timed out; no other value.
C14_HealthEntry ==
    \A c \in Clients :
        pc[c] # "idle" /\ IsHealthRequest(inbound[c])
        => /\ outbound[c].kind = "probe"
           /\ outbound[c].method = "GET"
           /\ outbound[c].url = [base |-> "http://localhost:8003", path |-> <<SegHealth>>]
           /\ sent[c] = 1
           /\ pc[c] = "done"
              => /\ response[c].body \in
                       {ReportBody("healthy"), ReportBody("unhealthy"), ReportBody("unreachable")}
                 /\ response[c].body = ReportBody("healthy")
                       <=> outbound[c].state = "answered" /\ outbound[c].reply.status = 200
                 /\ response[c].body = ReportBody("unhealthy")
                       <=> outbound[c].state = "answered" /\ outbound[c].reply.status # 200
                 /\ outbound[c].state \in {"refused", "timed_out", "late_dropped"}
                       => response[c].body = ReportBody("unreachable")

C14_Witness ==
    \E c \in Clients :
        /\ pc[c] = "done"
        /\ IsHealthRequest(inbound[c])
        /\ outbound[c].state = "answered"
        /\ outbound[c].reply.status = 204
        /\ response[c].body = ReportBody("unhealthy")

\* C15: a health call is answered 200 with a report that holds "gateway":
\* "healthy" whatever the backend does: down, silent past the 5 second
\* probe timeout or failing otherwise; the call waits for its probe no
\* longer than those 5 seconds.
C15_HealthAlwaysAnswers ==
    \A c \in Clients :
        pc[c] # "idle" /\ IsHealthRequest(inbound[c])
        => \/ pc[c] = "awaiting" /\ elapsed[c] <= 5
           \/ /\ pc[c] = "done"
              /\ response[c].status = 200
              /\ \E s \in {"healthy", "unhealthy", "unreachable"} :
                    response[c].body = ReportBody(s)

C15_Witness ==
    \E c \in Clients :
        /\ pc[c] = "done"
        /\ IsHealthRequest(inbound[c])
        /\ backend = "silent"
        /\ outbound[c].state = "timed_out"
        /\ elapsed[c] = 5
        /\ response[c].status = 200
        /\ response[c].body = ReportBody("unreachable")

FailedStates == {"refused", "timed_out", "late_dropped", "failed"}

\* C19: a forwarded call that failed is answered by exactly one of three
\* translations, chosen by the kind of the fault: a refused connection 503,
\* any timeout 504, a timeout while connecting included, and every other
\* transport fault 500 {"detail": "Gateway error: <fault message>"}.
C19_FaultTranslation ==
    \A c \in Clients :
        outbound[c].kind = "forward" /\ outbound[c].state \in FailedStates
        => /\ pc[c] = "done"
           /\ sent[c] = 1
           /\ response[c].status \in {503, 504, 500}
           /\ response[c].status = 503 <=> outbound[c].exc.class = "ConnectError"
           /\ response[c].status = 504
                 <=> outbound[c].exc.class \in
                        {"ConnectTimeout", "ReadTimeout", "WriteTimeout", "PoolTimeout"}
           /\ response[c].status = 500
                 => response[c].body =
                       "{\"detail\":\"Gateway error: " \o outbound[c].exc.message \o "\"}"
           /\ response[c].status = 503
                 => response[c].body = "{\"detail\":\"Service unavailable: http://localhost:8003\"}"
           /\ response[c].status = 504
                 => response[c].body = "{\"detail\":\"Service timeout: http://localhost:8003\"}"

C19_Witness ==
    \E c \in Clients :
        /\ pc[c] = "done"
        /\ outbound[c].kind = "forward"
        /\ outbound[c].state = "failed"
        /\ outbound[c].exc.class = "RemoteProtocolError"
        /\ response[c].status = 500
        /\ response[c].body =
              "{\"detail\":\"Gateway error: Server disconnected without sending a response.\"}"

\* C17: while the request of one client is suspended in its outbound call,
\* a request of another client, of any kind, can be taken up at once, a
\* call of the other client can be answered by the backend, and a response
\* of the other client can go out; none of them waits for the suspended
\* request.
C17_OthersNotBlocked ==
    \A c \in Clients : \A d \in Clients \ {c} :
        pc[c] = "awaiting"
        => /\ pc[d] = "idle" => \A request \in ConcRequests : ENABLED Receive(d, request)
           /\ pc[d] = "awaiting" /\ backend = "up" /\ elapsed[d] < outbound[d].timeout
              => \A reply \in ConcReplies : ENABLED BackendReply(d, reply)
           /\ pc[d] = "done" => ENABLED Finish(d)

\* c1 came first and still waits after 29 s; c2 came second, was forwarded
\* and has its backend's answer
C17_Witness ==
    /\ order = <<"c1", "c2">>
    /\ pc["c1"] = "awaiting"
    /\ outbound["c1"].kind = "forward"
    /\ elapsed["c1"] = 29
    /\ pc["c2"] = "done"
    /\ outbound["c2"].kind = "forward"
    /\ outbound["c2"].state = "answered"
    /\ response["c2"].status = 200

\* C18: a forwarded request that waits for its backend is eventually
\* answered, also when the backend never replies; the wait ends at the 30
\* second timeout at the latest, and a response once determined stays the
\* response of the request.
C18_EventuallyAnswered ==
    /\ \A c \in Clients :
          (pc[c] = "awaiting" /\ outbound[c].kind = "forward") ~> (pc[c] = "done")
    /\ [](\A c \in Clients :
             pc[c] = "awaiting" /\ outbound[c].kind = "forward" => elapsed[c] <= 30)
    /\ [][\A c \in Clients :
             pc[c] = "done" /\ pc'[c] = "done" => response'[c] = response[c]]_vars

C18_Witness ==
    \E c \in Clients :
        /\ backend = "silent"
        /\ pc[c] = "done"
        /\ outbound[c].kind = "forward"
        /\ outbound[c].state = "timed_out"
        /\ outbound[c].exc.class = "ReadTimeout"
        /\ elapsed[c] = 30
        /\ response[c].status = 504

\* C20 as stated: after DELETE /tasks/{id} was answered 204, every later
\* GET /tasks/{id} is answered 404 and no later GET /tasks lists the task,
\* whatever was created, updated or deleted in between; DELETE of an id
\* that is not stored is answered 404 and changes nothing.
C20_Original ==
    /\ [](/\ deleted \cap DOMAIN tasks = {}
          /\ mresp.op = "get_task" /\ mresp.arg \in deleted => mresp.status = 404
          /\ mresp.op = "get_tasks" => \A k \in 1..Len(mresp.list) : mresp.list[k].id \notin deleted)
    /\ [][\A task_id \in TaskIds :
             delete_task(task_id) /\ task_id \notin DOMAIN tasks
             => /\ mresp'.status = 404
                /\ UNCHANGED <<tasks, sqlite_sequence, cache, deleted>>]_vars

\* C20 amended: the same, for the requests the rate limiter lets through; a
\* request beyond the limit of its endpoint is answered 429 and changes
\* nothing.
C20_DeletedStaysDeleted ==
    /\ [](/\ deleted \cap DOMAIN tasks = {}
          /\ mresp.op = "get_task" /\ mresp.arg \in deleted => mresp.status \in {404, 429}
          /\ mresp.op = "get_tasks" => \A k \in 1..Len(mresp.list) : mresp.list[k].id \notin deleted
          /\ mresp.op = "delete_task" /\ mresp.status = 204 => mresp.arg \in deleted)
    /\ [][\A task_id \in TaskIds :
             delete_task(task_id) /\ task_id \notin DOMAIN tasks
             => /\ mresp'.status \in {404, 429}
                /\ UNCHANGED <<tasks, sqlite_sequence, cache, deleted>>]_vars
    /\ [][deleted \subseteq deleted']_vars

\* task 1 was deleted, task 2 was created afterwards, and GET /tasks/1 is
\* answered 404
C20_Witness ==
    /\ deleted = {1}
    /\ DOMAIN tasks = {2}
    /\ sqlite_sequence = 2
    /\ mresp.op = "get_task"
    /\ mresp.arg = 1
    /\ mresp.status = 404

(***************************************************************************)
(* C21-C22, C26-C27: the monolith API                                      *)
(***************************************************************************)
\* the text of a title: its tokens that are no markup, without the blanks at
\* either end
TextOf(title) ==
    LET plain == SelectSeq(title, LAMBDA tok : tok \notin {"<b>", "</b>"})
        inner == {k \in 1..Len(plain) : plain[k] # " "}
    IN IF inner = {} THEN <<>>
       ELSE SubSeq(plain, CHOOSE k \in inner : \A j \in inner : k <= j,
                          CHOOSE k \in inner : \A j \in inner : j <= k)

\* a step in which the task with this id is updated or deleted
Touches(task_id) ==
    \/ \E task_data \in TaskUpdate : update_task(task_id, task_data)
    \/ \E status_data \in TaskStatusUpdate : update_task_status(task_id, status_data)
    \/ delete_task(task_id)

\* a created task is stored as it was returned, and stays as it is stored
\* until it is updated or deleted
StoredUntilTouched ==
    /\ \A task_data \in TaskCreate :
          create_task(task_data) =>
             /\ mresp'.task.id \in DOMAIN tasks'
             /\ tasks'[mresp'.task.id] = mresp'.task
    /\ \A task_id \in DOMAIN tasks :
          ~Touches(task_id) => task_id \in DOMAIN tasks' /\ tasks'[task_id] = tasks[task_id]

FrameColumns ==
    {"id", "title", "description", "priority", "user_id", "project_id", "created_at",
     "due_date", "tags"}

\* the effect of PATCH /tasks/{task_id}/status on the table when it is
\* answered 200: the status of that task is the new one, its other columns
\* but updated_at and every other task are as before
StatusOnly(task_id, status) ==
    /\ DOMAIN tasks' = DOMAIN tasks
    /\ tasks'[task_id].status = status
    /\ \A col \in FrameColumns : tasks'[task_id][col] = tasks[task_id][col]
    /\ \A other \in DOMAIN tasks \ {task_id} : tasks'[other] = tasks[other]

\* C22 as it is written: PATCH /tasks/{id}/status on a stored task returns
\* 200 with the new status and changes only that task's status and
\* updated_at; on an id that is not stored it returns 404 and changes no
\* task.
C22_Original ==
    [][\A task_id \in TaskIds : \A status_data \in TaskStatusUpdate :
          update_task_status(task_id, status_data) =>
             IF task_id \in DOMAIN tasks
             THEN /\ mresp'.status = 200
                  /\ mresp'.task.status = status_data.status
                  /\ mresp'.task = tasks'[task_id]
                  /\ StatusOnly(task_id, status_data.status)
             ELSE mresp'.status = 404 /\ tasks' = tasks]_vars

\* C22 (amended): a PATCH /tasks/{id}/status that the rate limiter lets
\* through returns, on a stored task, 200 with the new status and the task
\* as it is now stored (what a later GET /tasks/{id} shows), and changes only
\* that task's status and updated_at; on an id that is not stored it returns
\* 404 and changes no task.  A PATCH beyond the limit returns 429 and changes
\* no task.
C22_StatusUpdateFrame ==
    [][\A task_id \in TaskIds : \A status_data \in TaskStatusUpdate :
          update_task_status(task_id, status_data) =>
             \/ mresp'.status = 429 /\ tasks' = tasks
             \/ IF task_id \in DOMAIN tasks
                THEN /\ mresp'.status = 200
                     /\ mresp'.task.status = status_data.status
                     /\ mresp'.task = tasks'[task_id]
                     /\ StatusOnly(task_id, status_data.status)
                ELSE mresp'.status = 404 /\ tasks' = tasks]_vars

\* a PATCH has changed the status of one of two stored tasks, some time after
\* the task was created
C22_Witness ==
    /\ mresp.op = "update_task_status"
    /\ mresp.status = 200
    /\ Cardinality(DOMAIN tasks) = 2
    /\ mresp.arg \in DOMAIN tasks
    /\ tasks[mresp.arg].status = "done"
    /\ tasks[mresp.arg].updated_at > tasks[mresp.arg].created_at

\* the tasks now stored that match the user_id filter of GET /tasks
\* (0: no filter)
Matching(user_id) ==
    {tasks[i] : i \in {j \in DOMAIN tasks : user_id = 0 \/ tasks[j].user_id = user_id}}

\* the list holds exactly the tasks of the set, each once
ListsExactly(list, S) ==
    /\ {list[k] : k \in 1..Len(list)} = S
    /\ Len(list) = Cardinality(S)

\* C26: cache coherence of the task list.  After any sequence of create,
\* update, status-update, delete and list operations, every list that
\* GET /tasks returns (unfiltered or filtered by a user_id) holds exactly the
\* tasks currently stored that match the filter, and no cached list that
\* could still be served differs from the stored tasks (a list cached before
\* a successful write is never served after it).
C26_CacheCoherent ==
    /\ [](\A user_id \in Filters :
             LET entry == cache[cache_key(user_id)]
             IN (entry # NoEntry /\ now - entry.time < CACHE_TTL_SECONDS)
                   => ListsExactly(entry.data, Matching(user_id)))
    /\ [][\A user_id \in Filters :
             (get_tasks(user_id) /\ mresp'.status = 200)
                => ListsExactly(mresp'.list, Matching(user_id))]_vars

\* with the list of all tasks cached, GET /tasks?user_id=1 has listed the
\* one task of that user out of the two that are stored
C26_Witness ==
    /\ mresp.op = "get_tasks"
    /\ mresp.status = 200
    /\ mresp.arg = 1
    /\ Cardinality(DOMAIN tasks) = 2
    /\ Len(mresp.list) = 1
    /\ mresp.list[1].status = "done"
    /\ cache[cache_key(0)] # NoEntry
    /\ cache[cache_key(1)].data = mresp.list

\* the age in seconds of the cached list of a key, -1 when there is none
AgeOf(key) == IF cache[key] = NoEntry THEN -1 ELSE now - cache[key].time

\* C27: GET /tasks serves the cached list of its key only if the list was
\* stored less than CACHE_TTL_SECONDS (60) seconds ago, and then leaves the
\* cache as it is; when there is no list or its age is 60 seconds or more,
\* the tasks are read from the database and the entry of the key is
\* overwritten with that list and the current time.  The entries of the other
\* keys are not touched either way: each key expires on its own.
C27_ServedWhileFresh ==
    [][\A user_id \in Filters :
          (get_tasks(user_id) /\ mresp'.status = 200) =>
             LET key == cache_key(user_id)
             IN /\ IF 0 <= AgeOf(key) /\ AgeOf(key) < 60
                   THEN /\ mresp'.list = cache[key].data
                        /\ cache'[key] = cache[key]
                   ELSE /\ cache'[key].time = now
                        /\ cache'[key].data = mresp'.list
                        /\ ListsExactly(mresp'.list, Matching(user_id))
                /\ \A other \in CacheKeys \ {key} : cache'[other] = cache[other]]_vars

\* at second 60 the list of all tasks, stored at second 0, was expired and
\* has been read anew, and after that the list of user 1, stored at second 1,
\* has been served from the cache
C27_Witness ==
    /\ now = 60
    /\ mresp.op = "get_tasks"
    /\ mresp.arg = 1
    /\ mresp.status = 200
    /\ Len(mresp.list) > 0
    /\ cache[cache_key(1)].time = 1
    /\ cache[cache_key(0)].time = 60

(***************************************************************************)
(* C23-C25: the gateway's outbound call, concurrency and internal faults   *)
(***************************************************************************)
\* C23: for every forwarded request the outbound URL is the base URL of the
\* tasks backend followed by the path of the inbound request, character for
\* character; no forwarded request goes to the users or projects base URL.
C23_UrlIsInboundPath ==
    \A c \in Clients :
       (pc[c] = "awaiting" /\ outbound[c].kind = "forward") =>
          /\ outbound[c].url.base = "http://localhost:8003"
          /\ outbound[c].url.path = inbound[c].path

\* what the request task of a client holds: its request, its outbound call,
\* its position and its response
TaskOf(c) == <<pc[c], inbound[c], outbound[c], response[c], sent[c]>>

\* C24: concurrent gateway requests do not interfere.  Under every
\* interleaving the outbound call of a request carries the method, path,
\* query parameters, headers (but host) and body of that request and of no
\* other; two requests that are equal and whose own calls ended the same way
\* get the same response, whatever else was in flight; and a step of one
\* request, a failure included, changes nothing of another request.
C24_NoInterference ==
    /\ [](\A c \in Clients :
             (pc[c] # "idle" /\ outbound[c].kind = "forward") =>
                /\ outbound[c].method = inbound[c].method
                /\ outbound[c].url.path = inbound[c].path
                /\ outbound[c].params = inbound[c].query
                /\ outbound[c].headers =
                      SelectSeq(inbound[c].headers, LAMBDA h : h[1] # "host")
                /\ outbound[c].content.bytes = inbound[c].body)
    /\ [](\A c, d \in Clients :
             (/\ pc[c] = "done" /\ pc[d] = "done"
              /\ inbound[c] = inbound[d]
              /\ outbound[c] = outbound[d])
             => response[c] = response[d])
    /\ [][\A c, d \in Clients :
             (c # d /\ TaskOf(c)' # TaskOf(c)) => TaskOf(d)' = TaskOf(d)]_vars

\* the POST of one client was answered by the backend while the GET of the
\* other, started before it, was in flight and was then refused
C24_Witness ==
    /\ order = <<"c2", "c1">>
    /\ pc["c1"] = "done" /\ pc["c2"] = "done"
    /\ inbound["c1"].method = "POST" /\ inbound["c2"].method = "GET"
    /\ outbound["c1"].state = "answered" /\ response["c1"].status = 200
    /\ outbound["c2"].state = "refused" /\ response["c2"].status = 503

\* the phases of a forwarded request that lie before the try block
BeforeTry == {"body", "headers", "client"}

\* C25: a fault raised while a request is handled outside the forwarding try
\* block (reading the inbound body, building the outbound headers, creating
\* the HTTP client) is answered, and not as a backend failure: the response
\* is 500 {"detail": "Internal server error"}, whatever the fault, and no
\* outbound call was made.
C25_InternalFaultIs500 ==
    \A c \in Clients :
       outbound[c].state \in BeforeTry =>
          /\ pc[c] = "done"
          /\ response[c].status = 500
          /\ response[c].body = "{\"detail\":\"Internal server error\"}"
          /\ sent[c] = 0

\* the creation of the HTTP client failed for a PATCH /tasks/42/status
C25_Witness ==
    \E c \in Clients :
        /\ pc[c] = "done"
        /\ inbound[c].method = "PATCH"
        /\ inbound[c].path = <<SegTasks, <<"4", "2">>, SegStatus>>
        /\ outbound[c].state = "client"
        /\ outbound[c].exc.class = "OSError"
        /\ response[c].status = 500
        /\ response[c].body = "{\"detail\":\"Internal server error\"}"


\* a step of an endpoint of the event-driven application: the subscriptions
\* stay as they are
EndpointStep == handlers' = handlers

\* the answers of an operation that succeeded
Succeeded(status) == status \in {200, 201, 204}

\* C28: when an endpoint publishes an event, the handlers called are exactly
\* those subscribed to the type of the event, each subscription once and in
\* the order of subscription, each with the data of the event, whether or
\* not some of them raise; and the operation answers with its success
\* status.
C28_PublishReachesEveryHandler ==
    [][(EndpointStep /\ published' # <<>>) =>
          LET event == published'[1]
              hs == handlers[event.event_type]
          IN /\ Len(invoked') = Len(hs)
             /\ \A k \in 1..Len(hs) :
                   /\ invoked'[k].handler = hs[k]
                   /\ invoked'[k].event_type = event.event_type
                   /\ invoked'[k].data = event.task_id
             /\ Succeeded(mresp'.status)]_vars

\* C28 happens: a create whose first handler raised; the handler subscribed
\* after it was called all the same and the answer is 201
C28_Witness ==
    /\ handlers["task.created"] = <<"on_task_created", "audit">>
    /\ handlers["task.updated"] = <<"on_task_updated", "audit">>
    /\ Len(invoked) = 2
    /\ invoked[1].handler = "on_task_created" /\ invoked[1].raised
    /\ invoked[2].handler = "audit" /\ ~invoked[2].raised
    /\ mresp.op = "create_task" /\ mresp.status = 201

\* the change an operation makes to the table, seen on the task of the event
Changed(op, task_id, before, after) ==
    CASE op = "create_task" -> task_id \notin DOMAIN before /\ task_id \in DOMAIN after
      [] op = "delete_task" -> task_id \in DOMAIN before /\ task_id \notin DOMAIN after
      [] OTHER -> task_id \in DOMAIN before /\ task_id \in DOMAIN after

\* the type of the event of an operation
EventOf(op) ==
    CASE op = "create_task" -> "task.created"
      [] op = "delete_task" -> "task.deleted"
      [] OTHER -> "task.updated"

\* C29: an operation that succeeds publishes one event, of the type of the
\* operation and for the task it wrote, and the table committed when the
\* event is published is the table with the change; an operation that ends
\* in 404 publishes nothing and leaves the table as it was.
C29_OneEventAfterCommit ==
    [][EndpointStep =>
          /\ Succeeded(mresp'.status) =>
                /\ Len(published') = 1
                /\ published'[1].event_type = EventOf(mresp'.op)
                /\ published'[1].task_id = mresp'.arg
                /\ published'[1].table = tasks'
                /\ Changed(mresp'.op, mresp'.arg, tasks, published'[1].table)
          /\ mresp'.status = 404 => published' = <<>> /\ tasks' = tasks]_vars

\* C29 happens: a status change of a stored task published task.updated with
\* the new status committed
C29_Witness ==
    /\ mresp.op = "update_status" /\ mresp.status = 200
    /\ Len(published) = 1
    /\ published[1].event_type = "task.updated"
    /\ mresp.arg \in DOMAIN tasks
    /\ published[1].table[mresp.arg].status = "done"
    /\ mresp.task.status = "todo"


\* what a statement does to the table: the INSERT adds one row under a new
\* id, the UPDATE sets the status of the row if it is stored, the DELETE
\* takes the row away, and every other row is as it was
Effect(stmt, table, after) ==
    CASE stmt.op = "create_task" ->
            /\ \E id \in DOMAIN after \ DOMAIN table :
                  /\ DOMAIN after = DOMAIN table \cup {id}
                  /\ after[id].status = stmt.status
            /\ \A i \in DOMAIN table : after[i] = table[i]
      [] stmt.op = "update_task_status" ->
            /\ DOMAIN after = DOMAIN table
            /\ \A i \in DOMAIN table :
                  IF i = stmt.task_id THEN after[i].status = stmt.status
                  ELSE after[i] = table[i]
      [] stmt.op = "delete_task" ->
            /\ DOMAIN after = DOMAIN table \ {stmt.task_id}
            /\ \A i \in DOMAIN after : after[i] = table[i]

\* C30: while an operation runs it has one open connection and the
\* committed table is the table from before the operation or that table
\* with the whole statement applied; once the operation is over its
\* connection is closed, the statement is committed if the block completed,
\* and table and sequence are exactly those from before the operation if
\* anything was raised.
C30_TransactionPerOperation ==
    /\ txn.pc \in {"block", "executed", "except", "finally"} =>
          /\ txn.conn = "open"
          /\ tasks = txn.before \/ Effect(txn.stmt, txn.before, tasks)
    /\ txn.pc = "done" =>
          /\ txn.conn = "closed"
          /\ txn.outcome \in {"returned", "raised"}
          /\ txn.outcome = "returned" => Effect(txn.stmt, txn.before, tasks)
          /\ txn.outcome = "raised" =>
                tasks = txn.before /\ sqlite_sequence = txn.beforeseq

\* C30 happens: under "except Exception" a BaseException was raised after
\* the INSERT of a second task, so that nothing was rolled back; the
\* operation is over, the connection closed and the table as before
C30_Witness ==
    /\ txn.pc = "done" /\ txn.conn = "closed"
    /\ txn.app = "monolith" /\ txn.stmt.op = "create_task"
    /\ txn.exc = "BaseException" /\ txn.outcome = "raised"
    /\ 1 \in DOMAIN tasks
    /\ 2 \in DOMAIN txn.work
    /\ tasks = txn.before
=============================================================================
